---- MODULE Spec2Model ----
(***************************************************************************)
(* Model of the llm-security-core gateway of LLM-Dev-Ops/shield:           *)
(*   - CallerToken::create / CallerToken::validate   (caller_token.rs)     *)
(*   - SecurityCore::scan_prompt / scan_output / scan_batch, with          *)
(*     validate_context and authorize_operation       (gateway.rs)         *)
(*   - CentralizedPolicy / DefaultPolicy              (policy.rs)          *)
(*   - SecurityCoreBuilder                            (gateway.rs)         *)
(* and of the execution spans of llm-shield-api:                           *)
(*   - ExecutionSpan::new_repo / new_agent / attach_artifact / complete /  *)
(*     fail / finalize                          (models/execution.rs)      *)
(* and of the layers of its scan routes:                                   *)
(*   - gateway_middleware                       (middleware/gateway.rs)    *)
(*   - execution_context_middleware   (middleware/execution_context.rs)    *)
(*   - create_router_with_state                 (router.rs)                *)
(*                                                                         *)
(* Strings are sequences of one-character strings, so that is_empty,       *)
(* format!("{}|{}", ..) and the timestamp text are what the code makes of  *)
(* them.  Instants and durations are integers counted in ticks, with       *)
(* TicksPerSec ticks to the second, so that sub-second ages exist and      *)
(* Duration::num_seconds truncates as chrono does.                         *)
(***************************************************************************)
EXTENDS Integers, Sequences, FiniteSets, TLC

\* ------------------------------------------------------------------ bounds
\* Clock resolution: instants per second.
TicksPerSec == 2
\* How many times the clock advances in one behaviour.
MaxAdvance == 2
\* Operations on spans in one behaviour.
MaxSpanOps == 5
\* How many times the clock advances between the operations on spans.
MaxSpanAdvance == 1
\* Requests sent to the scan routes in one behaviour.
MaxRequests == 2
\* How many times the clock advances while requests are served.
MaxHttpAdvance == 1
\* Gateway calls that can be in flight together.
NCalls == 2
\* Worker threads of the runtime.
NThreads == 2

\* ------------------------------------------------------- program constants
\* caller_token.rs:10 (and gateway.rs:14, DEFAULT_TOKEN_TTL_SECONDS).
DEFAULT_TTL_SECONDS == 300
\* caller_token.rs:11
MAX_CLOCK_SKEW_SECONDS == 30
\* gateway.rs:14
DEFAULT_TOKEN_TTL_SECONDS == 300

\* Option<T>: None is the empty sequence, Some(v) the sequence holding v.
None == <<>>
Some(v) == <<v>>
\* Result<(), GatewayError>::Ok(())
Ok == [kind |-> "Ok", msg |-> "ok"]

Sec(n) == n * TicksPerSec

\* ----------------------------------------------------------------- errors
\* error.rs: GatewayError variants, each carrying its message.
InvalidCallerToken(msg) == [kind |-> "InvalidCallerToken", msg |-> msg]
ExpiredCallerToken(msg) == [kind |-> "ExpiredCallerToken", msg |-> msg]
MissingExecutionContext(msg) == [kind |-> "MissingExecutionContext", msg |-> msg]
PolicyDenied(msg) == [kind |-> "PolicyDenied", msg |-> msg]
DirectAccess(msg) == [kind |-> "DirectAccess", msg |-> msg]
ShieldError(cause) == [kind |-> "Shield", msg |-> cause]

IsErr(r) == r.kind # "Ok"

\* ------------------------------------------------------- timestamp text
\* chrono's DateTime<Utc>::to_rfc3339 and str::parse::<DateTime<Utc>>, on a
\* reduced calendar: the text of an instant is the decimal digits of its
\* whole seconds, then (only when the sub-second part is not zero) "." and
\* the sub-second tick as one digit, then the zone designator "Z".
DigitChars == <<"0", "1", "2", "3", "4", "5", "6", "7", "8", "9">>

IsDigit(c) == \E i \in 1..10 : DigitChars[i] = c
DigitVal(c) == (CHOOSE i \in 1..10 : DigitChars[i] = c) - 1

RECURSIVE Digits(_)
Digits(n) == IF n < 10 THEN <<DigitChars[n + 1]>>
             ELSE Append(Digits(n \div 10), DigitChars[(n % 10) + 1])

RECURSIVE NatOf(_)
NatOf(s) == IF Len(s) = 0 THEN 0
            ELSE 10 * NatOf(SubSeq(s, 1, Len(s) - 1)) + DigitVal(s[Len(s)])

AllDigits(s) == Len(s) > 0 /\ \A i \in 1..Len(s) : IsDigit(s[i])

to_rfc3339(t) ==
    IF t % TicksPerSec = 0
    THEN Digits(t \div TicksPerSec) \o <<"Z">>
    ELSE Digits(t \div TicksPerSec) \o <<".">> \o Digits(t % TicksPerSec) \o <<"Z">>

ParseError == 0 - 1

\* The instant a timestamp text denotes, or ParseError.
parse_rfc3339(s) ==
    IF Len(s) < 2 \/ s[Len(s)] # "Z" THEN ParseError
    ELSE LET body == SubSeq(s, 1, Len(s) - 1)
             dots == {i \in 1..Len(body) : body[i] = "."}
         IN IF dots = {} THEN
                IF AllDigits(body) THEN NatOf(body) * TicksPerSec ELSE ParseError
            ELSE IF Cardinality(dots) > 1 THEN ParseError
            ELSE LET d == CHOOSE i \in dots : TRUE
                     whole == SubSeq(body, 1, d - 1)
                     frac == SubSeq(body, d + 1, Len(body))
                 IN IF AllDigits(whole) /\ Len(frac) = 1 /\ IsDigit(frac[1])
                       /\ DigitVal(frac[1]) < TicksPerSec
                    THEN NatOf(whole) * TicksPerSec + DigitVal(frac[1])
                    ELSE ParseError

\* chrono Duration::num_seconds: whole seconds, truncated toward zero.
num_seconds(d) == IF d >= 0 THEN d \div TicksPerSec ELSE -((-d) \div TicksPerSec)

\* ------------------------------------------------------------ HMAC and hex
\* format!("{}|{}", caller_id, issued_at)
Payload(caller_id, issued_at) == caller_id \o <<"|">> \o issued_at

\* HMAC-SHA256 as an ideal MAC: the tag is determined by key and message and
\* no two (key, message) pairs share a tag.
HmacSha256(key, msg) == [key |-> key, msg |-> msg]

\* A signature text is a sequence of characters; a character is either a hex
\* block (the 64 hex digits of one tag) or a character that is no hex digit.
\* hex::encode of a tag is the one block holding it.
hex_encode(tag) == <<[hex |-> TRUE, tag |-> tag]>>

\* A tag that is the MAC of no payload (every payload holds a "|").
OtherTag == HmacSha256(<<>>, <<>>)
\* "deadbeef".repeat(8): well-formed hex that is no payload's MAC.
DeadBeef == <<[hex |-> TRUE, tag |-> OtherTag]>>
\* A text with a character that is no hex digit.
NotHex == <<[hex |-> FALSE, tag |-> OtherTag]>>

\* Mutant of hex_decode: characters that are no hex digits are skipped.
hex_decode_Lenient(sig) ==
    LET F[i \in 0..Len(sig)] ==
            IF i = 0 THEN <<>>
            ELSE IF sig[i].hex THEN Append(F[i - 1], sig[i].tag) ELSE F[i - 1]
    IN [ok |-> TRUE, bytes |-> F[Len(sig)]]

\* hex::decode: the bytes the text encodes (ok), or an error when a character
\* is no hex digit.
hex_decode(sig) ==
    IF \A i \in 1..Len(sig) : sig[i].hex
    THEN [ok |-> TRUE, bytes |-> [i \in 1..Len(sig) |-> sig[i].tag]]
    ELSE [ok |-> FALSE, bytes |-> <<>>]

\* Mac::verify_slice: the computed tag equals the given bytes.
verify_slice(tag, bytes) == bytes = <<tag>>

\* compute_signature: hex of the MAC of "caller_id|issued_at" under the secret.
\* (HmacSha256::new_from_slice takes a key of any length, the empty one
\* included, so its error branch is never taken.)
compute_signature(caller_id, issued_at, secret) ==
    hex_encode(HmacSha256(secret, Payload(caller_id, issued_at)))

\* ------------------------------------------------------------- CallerToken
CallerToken(caller_id, signature, issued_at) ==
    [caller_id |-> caller_id, signature |-> signature, issued_at |-> issued_at]

\* Mutant of create: the shared secret is not checked.
create_AnySecret(caller_id, shared_secret, now_) ==
    IF caller_id = <<>>
    THEN [result |-> InvalidCallerToken("caller_id must not be empty"), token |-> None]
    ELSE LET issued_at == to_rfc3339(now_)
             signature == compute_signature(caller_id, issued_at, shared_secret)
         IN [result |-> Ok, token |-> Some(CallerToken(caller_id, signature, issued_at))]

\* CallerToken::create, at the instant now of the creating clock:
\* [result |-> Ok, token |-> Some(token)] or [result |-> error, token |-> None].
create(caller_id, shared_secret, now_) ==
    IF caller_id = <<>>
    THEN [result |-> InvalidCallerToken("caller_id must not be empty"), token |-> None]
    ELSE IF shared_secret = <<>>
    THEN [result |-> InvalidCallerToken("shared_secret must not be empty"), token |-> None]
    ELSE LET issued_at == to_rfc3339(now_)
             signature == compute_signature(caller_id, issued_at, shared_secret)
         IN [result |-> Ok, token |-> Some(CallerToken(caller_id, signature, issued_at))]

\* Mutant of TtlOf: the default is taken to be zero.
TtlOf_DefaultZero(ttl_seconds) == IF ttl_seconds = None THEN 0 ELSE ttl_seconds[1]

\* ttl_seconds.unwrap_or(DEFAULT_TTL_SECONDS)
TtlOf(ttl_seconds) == IF ttl_seconds = None THEN DEFAULT_TTL_SECONDS ELSE ttl_seconds[1]

\* Mutant of IsExpired: the comparison is not strict.
IsExpired_NotStrict(age, ttl) == num_seconds(age) >= ttl

\* The expiry test of validate: age.num_seconds() > ttl.
IsExpired(age, ttl) == num_seconds(age) > ttl

\* The future test of validate: age.num_seconds() < -MAX_CLOCK_SKEW_SECONDS.
IsFromFuture(age) == num_seconds(age) < -MAX_CLOCK_SKEW_SECONDS

\* Mutant of CheckSignature: the MAC is computed and never verified.
CheckSignature_Unverified(self, shared_secret) == Ok

\* The signature step of validate: decode the hex, then verify the MAC.
CheckSignature(self, shared_secret) ==
    LET tag == HmacSha256(shared_secret, Payload(self.caller_id, self.issued_at))
        sig_bytes == hex_decode(self.signature)
    IN IF ~sig_bytes.ok THEN InvalidCallerToken("signature is not valid hex")
       ELSE IF ~verify_slice(tag, sig_bytes.bytes)
       THEN InvalidCallerToken("signature mismatch")
       ELSE Ok

\* Mutant of CheckExpiry: an issued_at that does not parse is let through.
CheckExpiry_LenientParse(self, ttl, now_) ==
    LET issued_at == parse_rfc3339(self.issued_at)
        age == now_ - issued_at
    IN IF issued_at = ParseError
       THEN Ok
       ELSE IF IsExpired(age, ttl)
       THEN [kind |-> "ExpiredCallerToken", msg |-> "age: {}s, TTL: {}s",
             age |-> num_seconds(age), ttl |-> ttl]
       ELSE IF IsFromFuture(age)
       THEN InvalidCallerToken("issued_at is in the future")
       ELSE Ok

\* The expiry step of validate, at the instant now of the validating clock.
CheckExpiry(self, ttl, now_) ==
    LET issued_at == parse_rfc3339(self.issued_at)
        age == now_ - issued_at
    IN IF issued_at = ParseError
       THEN InvalidCallerToken("invalid issued_at timestamp")
       ELSE IF IsExpired(age, ttl)
       THEN [kind |-> "ExpiredCallerToken", msg |-> "age: {}s, TTL: {}s",
             age |-> num_seconds(age), ttl |-> ttl]
       ELSE IF IsFromFuture(age)
       THEN InvalidCallerToken("issued_at is in the future")
       ELSE Ok

\* Mutant of validate: the expiry step runs before the signature step.
validate_ExpiryFirst(self, shared_secret, ttl_seconds, now_) ==
    LET ttl == TtlOf(ttl_seconds)
    IN IF self.caller_id = <<>> THEN InvalidCallerToken("caller_id is empty")
       ELSE IF self.signature = <<>> THEN InvalidCallerToken("signature is empty")
       ELSE IF self.issued_at = <<>> THEN InvalidCallerToken("issued_at is empty")
       ELSE IF IsErr(CheckExpiry(self, ttl, now_))
       THEN CheckExpiry(self, ttl, now_)
       ELSE CheckSignature(self, shared_secret)

\* CallerToken::validate(&self, shared_secret, ttl_seconds), at the instant now.
validate(self, shared_secret, ttl_seconds, now_) ==
    LET ttl == TtlOf(ttl_seconds)
    IN IF self.caller_id = <<>> THEN InvalidCallerToken("caller_id is empty")
       ELSE IF self.signature = <<>> THEN InvalidCallerToken("signature is empty")
       ELSE IF self.issued_at = <<>> THEN InvalidCallerToken("issued_at is empty")
       ELSE IF IsErr(CheckSignature(self, shared_secret))
       THEN CheckSignature(self, shared_secret)
       ELSE CheckExpiry(self, ttl, now_)

\* ------------------------------------------------------------------ policy
\* policy.rs: GatewayContext
GatewayContext(execution_id, parent_span_id, caller) ==
    [execution_id |-> execution_id, parent_span_id |-> parent_span_id, caller |-> caller]

\* policy.rs: PolicyDecision::allow() and PolicyDecision::deny(reason); a
\* decision is also built field by field (the fields are public).
PolicyDecision(allowed, reason) == [allowed |-> allowed, reason |-> reason]
allow == PolicyDecision(TRUE, None)
deny(reason) == PolicyDecision(FALSE, Some(reason))

\* Result<PolicyDecision, GatewayError> of CentralizedPolicy::authorize.
Decided(decision) == [err |-> Ok, decision |-> decision]
PolicyFailed(err) == [err |-> err, decision |-> allow]

\* Mutant of DefaultPolicy_authorize: the default policy denies.
DefaultPolicy_Denies(context, operation) == Decided(deny("denied by default"))

\* policy.rs: impl CentralizedPolicy for DefaultPolicy
DefaultPolicy_authorize(context, operation) == Decided(allow)

\* Implementations of the CentralizedPolicy trait given to with_policy:
\* DenyAll denies every operation with its configured reason.
DenyAllReason == "all operations are denied"
DenyAll_authorize(context, operation) == Decided(deny(DenyAllReason))

\* DenySilently denies every operation with a decision built field by field,
\* without a reason.
DenySilently_authorize(context, operation) == Decided(PolicyDecision(FALSE, None))
\* Unreachable fails: its authorize returns Err(GatewayError) for every
\* operation, with an error of a kind the gateway itself never produces.
UnreachableError == DirectAccess("policy backend unreachable")
Unreachable_authorize(context, operation) == PolicyFailed(UnreachableError)
\* Refusing fails too, and the GatewayError it returns is the PolicyDenied
\* variant.
RefusingError == PolicyDenied("policy refused to decide")
Refusing_authorize(context, operation) == PolicyFailed(RefusingError)

\* The policy object's authorize, by the implementation behind the Box<dyn>.
Authorize(policy, context, operation) ==
    CASE policy = "DefaultPolicy" -> DefaultPolicy_authorize(context, operation)
      [] policy = "DenyAll" -> DenyAll_authorize(context, operation)
      [] policy = "DenySilently" -> DenySilently_authorize(context, operation)
      [] policy = "Unreachable" -> Unreachable_authorize(context, operation)
      [] policy = "Refusing" -> Refusing_authorize(context, operation)

Policies == {"DefaultPolicy", "DenyAll", "DenySilently", "Unreachable", "Refusing"}

\* ------------------------------------------------------------ SecurityCore
\* The SecurityCore struct: shield (here the preset it was built with),
\* shared_secret, token_ttl_seconds, policy.
SecurityCore(preset, shared_secret, token_ttl_seconds, policy) ==
    [preset |-> preset, shared_secret |-> shared_secret,
     token_ttl_seconds |-> token_ttl_seconds, policy |-> policy]

\* SecurityCore::standard(shared_secret)
standard(shared_secret) ==
    SecurityCore("Standard", shared_secret, DEFAULT_TOKEN_TTL_SECONDS, "DefaultPolicy")

\* The presets of the shield.
Presets == {"Standard", "Strict", "Permissive"}
\* SecurityCoreBuilder::new(), behind SecurityCore::builder().
SecurityCoreBuilder_new ==
    [shared_secret |-> <<>>, preset |-> "Standard",
     token_ttl_seconds |-> DEFAULT_TOKEN_TTL_SECONDS, policy |-> None]
with_secret(self, secret) == [self EXCEPT !.shared_secret = secret]
with_preset(self, preset) == [self EXCEPT !.preset = preset]
with_token_ttl(self, seconds) == [self EXCEPT !.token_ttl_seconds = seconds]
with_policy(self, policy) == [self EXCEPT !.policy = Some(policy)]

\* Shield::builder().with_preset(preset).build(): a shield of that preset.
Shield_build(preset) == [result |-> Ok, shield |-> preset]

\* Mutant of build: the secret is not looked at.
build_AnySecret(self) ==
    [result |-> Ok,
     core |-> Some(SecurityCore(Shield_build(self.preset).shield, self.shared_secret,
                                self.token_ttl_seconds,
                                IF self.policy = None THEN "DefaultPolicy"
                                ELSE self.policy[1]))]

\* SecurityCoreBuilder::build(self) -> Result<SecurityCore, GatewayError>
build(self) ==
    IF self.shared_secret = <<>>
    THEN [result |-> InvalidCallerToken("shared_secret is required for SecurityCore"),
          core |-> None]
    ELSE LET s == Shield_build(self.preset)
         IN IF IsErr(s.result)
            THEN [result |-> ShieldError(s.result.msg), core |-> None]
            ELSE [result |-> Ok,
                  core |-> Some(SecurityCore(s.shield, self.shared_secret,
                                             self.token_ttl_seconds,
                                             IF self.policy = None THEN "DefaultPolicy"
                                             ELSE self.policy[1]))]

\* Mutant of validate_context: the token is validated before the execution
\* context is looked at.
validate_context_TokenFirst(self, ctx, now_) ==
    LET v == validate(ctx.caller, self.shared_secret, Some(self.token_ttl_seconds), now_)
    IN IF IsErr(v) THEN v
       ELSE IF ctx.execution_id = <<>>
       THEN MissingExecutionContext("execution_id is required")
       ELSE IF ctx.parent_span_id = <<>>
       THEN MissingExecutionContext("parent_span_id is required")
       ELSE Ok

\* Mutant of validate_context: a token past its ttl is reported as invalid.
validate_context_ExpiredAsInvalid(self, ctx, now_) ==
    LET v == validate(ctx.caller, self.shared_secret, Some(self.token_ttl_seconds), now_)
    IN IF ctx.execution_id = <<>>
       THEN MissingExecutionContext("execution_id is required")
       ELSE IF ctx.parent_span_id = <<>>
       THEN MissingExecutionContext("parent_span_id is required")
       ELSE IF v.kind = "ExpiredCallerToken" THEN InvalidCallerToken("token rejected")
       ELSE v

\* SecurityCore::validate_context(&self, ctx), at the instant now.
validate_context(self, ctx, now_) ==
    IF ctx.execution_id = <<>>
    THEN MissingExecutionContext("execution_id is required")
    ELSE IF ctx.parent_span_id = <<>>
    THEN MissingExecutionContext("parent_span_id is required")
    ELSE validate(ctx.caller, self.shared_secret, Some(self.token_ttl_seconds), now_)

\* Mutant of authorize_operation: the decision is fetched and not looked at.
authorize_operation_IgnoresDecision(self, ctx, operation) ==
    Authorize(self.policy, ctx, operation).err

\* Mutant of authorize_operation: a denial loses the decision's reason.
authorize_operation_DropsReason(self, ctx, operation) ==
    LET r == Authorize(self.policy, ctx, operation)
    IN IF IsErr(r.err) THEN r.err
       ELSE IF ~r.decision.allowed THEN PolicyDenied("")
       ELSE Ok

\* Mutant of authorize_operation: an error of the policy check is reported as
\* a denial.
authorize_operation_ErrorAsDenied(self, ctx, operation) ==
    LET r == Authorize(self.policy, ctx, operation)
    IN IF IsErr(r.err) THEN PolicyDenied(r.err.msg)
       ELSE IF ~r.decision.allowed
       THEN PolicyDenied(IF r.decision.reason = None THEN "" ELSE r.decision.reason[1])
       ELSE Ok

\* Mutant of authorize_operation: an error of the policy check lets the
\* operation through.
authorize_operation_ErrorAsAllowed(self, ctx, operation) ==
    LET r == Authorize(self.policy, ctx, operation)
    IN IF IsErr(r.err) THEN Ok
       ELSE IF ~r.decision.allowed
       THEN PolicyDenied(IF r.decision.reason = None THEN "" ELSE r.decision.reason[1])
       ELSE Ok

\* Mutant of authorize_operation: a denial without a reason is given one.
authorize_operation_DefaultReason(self, ctx, operation) ==
    LET r == Authorize(self.policy, ctx, operation)
    IN IF IsErr(r.err) THEN r.err
       ELSE IF ~r.decision.allowed
       THEN PolicyDenied(IF r.decision.reason = None THEN "denied"
                         ELSE r.decision.reason[1])
       ELSE Ok

\* SecurityCore::authorize_operation(&self, ctx, operation), once the policy's
\* authorize has returned.
authorize_operation(self, ctx, operation) ==
    LET r == Authorize(self.policy, ctx, operation)
    IN IF IsErr(r.err) THEN r.err
       ELSE IF ~r.decision.allowed
       THEN PolicyDenied(IF r.decision.reason = None THEN "" ELSE r.decision.reason[1])
       ELSE Ok

\* The three scan operations of the gateway.
Operations == {"scan_prompt", "scan_output", "scan_batch"}
\* Mutant of OperationName: scan_output authorizes under scan_prompt's name.
OperationName_Copied(op) ==
    CASE op = "scan_prompt" -> "scan_prompt"
      [] op = "scan_output" -> "scan_prompt"
      [] op = "scan_batch" -> "scan_batch"
\* The operation name each of them hands to authorize_operation
\* (scan_prompt: line 90, scan_output: line 109, scan_batch: line 128).
OperationName(op) ==
    CASE op = "scan_prompt" -> "scan_prompt"
      [] op = "scan_output" -> "scan_output"
      [] op = "scan_batch" -> "scan_batch"
\* The method of the shield each of them delegates to
\* (scan_prompt: line 95, scan_output: line 114, scan_batch: line 133).
ShieldMethod(op) ==
    CASE op = "scan_prompt" -> "Shield::scan_prompt"
      [] op = "scan_output" -> "Shield::scan_output"
      [] op = "scan_batch" -> "Shield::scan_batch"

\* What the shield's operation ends with: a scan result or an SdkError.
ShieldOutcomes ==
    {[ok |-> TRUE, value |-> "valid"], [ok |-> TRUE, value |-> "risky"],
     [ok |-> FALSE, value |-> "sdk error"]}
\* Mutant of ScanResult: an error of the shield is swallowed and an empty
\* valid result returned in its place.
ScanResult_SwallowsError(o) == [kind |-> "Ok", msg |-> IF o.ok THEN o.value ELSE "valid"]
\* .map_err(GatewayError::Shield): the result is passed on, the error wrapped.
ScanResult(o) ==
    IF o.ok THEN [kind |-> "Ok", msg |-> o.value] ELSE ShieldError(o.value)

\* Mutant of ScopeValue: every call is bound to the same identity.
ScopeValue_Fixed(ctx) == <<"a">>

\* The value GATEWAY_TOKEN.scope is given: ctx.caller.caller_id.clone().
ScopeValue(ctx) == ctx.caller.caller_id

\* Mutant of swap_slot: the binding is a plain thread-local, written when a
\* value is brought in and left in place afterwards.
swap_slot_Sticky(cell, stored) ==
    [cell |-> IF stored = None THEN cell ELSE stored, stored |-> None]

\* GATEWAY_TOKEN is a task-local: the future made by GATEWAY_TOKEN.scope keeps
\* the bound value in its own slot and, around every poll of the delegated
\* work, exchanges that slot with the polling thread's cell: once when the
\* poll begins and once more when it ends (pending or ready).
swap_slot(cell, stored) == [cell |-> stored, stored |-> cell]

\* ----------------------------------------------------------- ExecutionSpan
\* models/execution.rs.  Identifiers (span_id, parent_span_id, execution_id,
\* artifact_id) are character sequences like the other identifiers; names,
\* artifact types and reasons are plain strings.  A serde_json object and the
\* attributes map are sets of <<key, value>> pairs.

\* Uuid::new_v4().to_string(): the n-th value drawn, different for every n.
Uuid(n) == <<"u">> \o Digits(n)

\* Duration::num_milliseconds(), truncating toward zero.
num_milliseconds(d) ==
    IF d >= 0 THEN (d * 1000) \div TicksPerSec ELSE -(((-d) * 1000) \div TicksPerSec)
\* i64 as u64: the value modulo 2^64, kept as the i64 and whether 2^64 was
\* added to it.
as_u64(n) == [wrapped |-> n < 0, offset |-> n]

\* struct SpanArtifact
SpanArtifact(artifact_id, artifact_type, data, timestamp) ==
    [artifact_id |-> artifact_id, artifact_type |-> artifact_type,
     data |-> data, timestamp |-> timestamp]

\* struct ExecutionOutput
ExecutionOutput(execution_id, repo_span) ==
    [execution_id |-> execution_id, repo_span |-> repo_span]

\* ExecutionSpan::new_repo(execution_id, parent_span_id)
new_repo(execution_id, parent_span_id, uuid, now_) ==
    [span_id |-> uuid, span_type |-> "Repo", parent_span_id |-> parent_span_id,
     execution_id |-> execution_id, name |-> "llm-shield",
     attributes |-> {<<"repo_name", "llm-shield">>},
     start_time |-> to_rfc3339(now_), end_time |-> None, status |-> "Running",
     duration_ms |-> None, artifacts |-> <<>>, children |-> <<>>]

\* ExecutionSpan::new_agent(repo_span, agent_name)
new_agent(repo_span, agent_name, uuid, now_) ==
    [span_id |-> uuid, span_type |-> "Agent", parent_span_id |-> repo_span.span_id,
     execution_id |-> repo_span.execution_id, name |-> agent_name,
     attributes |-> {<<"agent_name", agent_name>>, <<"repo_name", "llm-shield">>},
     start_time |-> to_rfc3339(now_), end_time |-> None, status |-> "Running",
     duration_ms |-> None, artifacts |-> <<>>, children |-> <<>>]

\* Mutant of attach_artifact: an artifact of a type and data the span already
\* carries is not added again.
attach_artifact_Dedup(self, artifact_type, data, uuid, now_) ==
    IF \E i \in 1..Len(self.artifacts) :
          /\ self.artifacts[i].artifact_type = artifact_type
          /\ self.artifacts[i].data = data
    THEN self
    ELSE [self EXCEPT !.artifacts =
            Append(@, SpanArtifact(uuid, artifact_type, data, to_rfc3339(now_)))]

\* ExecutionSpan::attach_artifact(&mut self, artifact_type, data)
attach_artifact(self, artifact_type, data, uuid, now_) ==
    [self EXCEPT !.artifacts =
        Append(@, SpanArtifact(uuid, artifact_type, data, to_rfc3339(now_)))]

\* The duration_ms that complete and fail leave: written only when start_time
\* parses.
DurationAt(self, now_) ==
    LET start == parse_rfc3339(self.start_time)
    IN IF start = ParseError THEN self.duration_ms
       ELSE Some(as_u64(num_milliseconds(now_ - start)))

\* Mutant of complete: the status is set and end_time is left as it was.
complete_KeepsEndTime(self, now_) ==
    [self EXCEPT !.status = "Completed",
                 !.duration_ms = DurationAt(self, now_)]

\* ExecutionSpan::complete(&mut self)
complete(self, now_) ==
    [self EXCEPT !.end_time = Some(to_rfc3339(now_)),
                 !.status = "Completed",
                 !.duration_ms = DurationAt(self, now_)]

\* Mutant of fail: the error artifact is added only the first time.
fail_OnceOnly(self, error, uuid, now_) ==
    [self EXCEPT !.end_time = Some(to_rfc3339(now_)),
                 !.status = "Error",
                 !.duration_ms = DurationAt(self, now_),
                 !.artifacts =
                    IF self.status = "Error" THEN @
                    ELSE Append(@, SpanArtifact(uuid, "error", {<<"error_reason", error>>},
                                                to_rfc3339(now_)))]

\* ExecutionSpan::fail(&mut self, error)
fail(self, error, uuid, now_) ==
    [self EXCEPT !.end_time = Some(to_rfc3339(now_)),
                 !.status = "Error",
                 !.duration_ms = DurationAt(self, now_),
                 !.artifacts =
                    Append(@, SpanArtifact(uuid, "error", {<<"error_reason", error>>},
                                           to_rfc3339(now_)))]

NoAgentSpans ==
    "Execution invariant violated: no agent-level spans were emitted. This repository MUST NOT return a successful result without agent spans."

\* Mutant of finalize: a span that has children is completed whatever its
\* status.
finalize_AlwaysCompletes(self, now_) ==
    IF self.children = <<>>
    THEN [ok |-> FALSE, err |-> NoAgentSpans, value |-> None]
    ELSE [ok |-> TRUE, err |-> "",
          value |-> Some(ExecutionOutput(self.execution_id, complete(self, now_)))]

\* Mutant of finalize: a span that has children is returned as it is.
finalize_NeverCompletes(self, now_) ==
    IF self.children = <<>>
    THEN [ok |-> FALSE, err |-> NoAgentSpans, value |-> None]
    ELSE [ok |-> TRUE, err |-> "",
          value |-> Some(ExecutionOutput(self.execution_id, self))]

\* ExecutionSpan::finalize(mut self) -> Result<ExecutionOutput, String>
finalize(self, now_) ==
    IF self.children = <<>>
    THEN [ok |-> FALSE, err |-> NoAgentSpans, value |-> None]
    ELSE LET done == IF self.status = "Running" THEN complete(self, now_) ELSE self
         IN [ok |-> TRUE, err |-> "",
             value |-> Some(ExecutionOutput(done.execution_id, done))]

\* --------------------------------------------------------- HTTP middleware
\* A header value is a sequence of bytes.  HeaderValue::to_str gives its text
\* when every byte is visible ASCII and fails otherwise; str says which.
HeaderValue(text) == [str |-> TRUE, text |-> text]
\* A header value with a byte that is no visible ASCII.
OpaqueValue == [str |-> FALSE, text |-> <<>>]
to_str(v) == IF v.str THEN Some(v.text) ELSE None

\* A request: for each header name the value sent, if any, and the
\* extensions the layers have inserted.
Request(headers) ==
    [headers |-> headers, extensions |-> [caller |-> None, span |-> None]]
\* A JSON error response.  args holds the values formatted into the message.
Response(status, error, message, code, args) ==
    [status |-> status, error |-> error, message |-> message, code |-> code,
     args |-> args]
\* What a layer does with a request: answer it, or run the next layer on it.
Reject(response) == [response |-> Some(response), next |-> None]
Pass(request) == [response |-> None, next |-> Some(request)]

\* str::trim: leading and trailing white space removed.
trim(s) ==
    LET inked == {i \in 1..Len(s) : s[i] # " "}
    IN IF inked = {} THEN <<>>
       ELSE SubSeq(s, CHOOSE i \in inked : \A j \in inked : i <= j,
                      CHOOSE i \in inked : \A j \in inked : i >= j)

\* Mutant of get_gateway_secret: an empty value counts as a secret.
get_gateway_secret_KeepsEmpty(cell, env) ==
    IF cell # None THEN cell ELSE Some(env)

\* GATEWAY_SECRET.get_or_init(|| env::var("GATEWAY_SHARED_SECRET").ok()
\*     .filter(|s| !s.is_empty())): the cell after the call.  The cell is
\* None before the first call and Some(secret option) ever after.
get_gateway_secret(cell, env) ==
    IF cell # None THEN cell
    ELSE Some(IF env # None /\ env[1] # <<>> THEN env ELSE None)

\* request.headers().get(name).and_then(|v| v.to_str().ok()).unwrap_or("")
header_or_empty(request, name) ==
    LET h == request.headers[name]
    IN IF h = None THEN <<>>
       ELSE IF to_str(h[1]) = None THEN <<>>
       ELSE to_str(h[1])[1]

GatewayCaller(caller_id) == [caller_id |-> caller_id]

MissingCallerToken ==
    Response(401, "Missing Caller Token",
             "A valid caller token is required. Provide x-caller-id, x-caller-signature, x-caller-issued-at headers. Direct calls to LLM-Shield are forbidden; use LLM-Security-Core.",
             "CALLER_TOKEN_REQUIRED", <<>>)
InvalidCallerTokenResponse(message) ==
    Response(401, "Invalid Caller Token", message, "INVALID_CALLER_TOKEN", <<>>)
ExpiredCallerTokenResponse(age) ==
    Response(401, "Invalid Caller Token", "Token expired (age: {}s, TTL: 300s)",
             "EXPIRED_CALLER_TOKEN", <<age>>)

\* Mutant of gateway_middleware: a request without caller-token headers is
\* left to the next layer.
gateway_middleware_PassesMissing(request, secret, now_) ==
    IF secret = None THEN Pass(request)
    ELSE
    LET caller_id == header_or_empty(request, "x-caller-id")
        signature == header_or_empty(request, "x-caller-signature")
        issued_at == header_or_empty(request, "x-caller-issued-at")
        tag == HmacSha256(secret[1], Payload(caller_id, issued_at))
        sig_bytes == hex_decode(signature)
        issued_time == parse_rfc3339(issued_at)
        age == now_ - issued_time
    IN IF caller_id = <<>> \/ signature = <<>> \/ issued_at = <<>>
       THEN Pass(request)
       ELSE IF ~sig_bytes.ok
       THEN Reject(InvalidCallerTokenResponse("Signature is not valid hex"))
       ELSE IF ~verify_slice(tag, sig_bytes.bytes)
       THEN Reject(InvalidCallerTokenResponse("Signature mismatch"))
       ELSE IF issued_time = ParseError
       THEN Reject(InvalidCallerTokenResponse(
                "Invalid issued_at timestamp format (expected RFC 3339)"))
       ELSE IF num_seconds(age) > 300
       THEN Reject(ExpiredCallerTokenResponse(num_seconds(age)))
       ELSE IF num_seconds(age) < -30
       THEN Reject(InvalidCallerTokenResponse("Token issued_at is in the future"))
       ELSE Pass([request EXCEPT
                    !.extensions.caller = Some(GatewayCaller(caller_id))])

\* Mutant of gateway_middleware: a token aged exactly 300 s is expired.
gateway_middleware_NotStrict(request, secret, now_) ==
    IF secret = None THEN Pass(request)
    ELSE
    LET caller_id == header_or_empty(request, "x-caller-id")
        signature == header_or_empty(request, "x-caller-signature")
        issued_at == header_or_empty(request, "x-caller-issued-at")
        tag == HmacSha256(secret[1], Payload(caller_id, issued_at))
        sig_bytes == hex_decode(signature)
        issued_time == parse_rfc3339(issued_at)
        age == now_ - issued_time
    IN IF caller_id = <<>> \/ signature = <<>> \/ issued_at = <<>>
       THEN Reject(MissingCallerToken)
       ELSE IF ~sig_bytes.ok
       THEN Reject(InvalidCallerTokenResponse("Signature is not valid hex"))
       ELSE IF ~verify_slice(tag, sig_bytes.bytes)
       THEN Reject(InvalidCallerTokenResponse("Signature mismatch"))
       ELSE IF issued_time = ParseError
       THEN Reject(InvalidCallerTokenResponse(
                "Invalid issued_at timestamp format (expected RFC 3339)"))
       ELSE IF num_seconds(age) >= 300
       THEN Reject(ExpiredCallerTokenResponse(num_seconds(age)))
       ELSE IF num_seconds(age) < -30
       THEN Reject(InvalidCallerTokenResponse("Token issued_at is in the future"))
       ELSE Pass([request EXCEPT
                    !.extensions.caller = Some(GatewayCaller(caller_id))])

\* gateway_middleware(request, next), with the cached secret, at the instant
\* now.  (HmacSha256::new_from_slice takes a key of any length, so its error
\* branch, the 500 response, is never taken.)
gateway_middleware(request, secret, now_) ==
    IF secret = None THEN Pass(request)
    ELSE
    LET caller_id == header_or_empty(request, "x-caller-id")
        signature == header_or_empty(request, "x-caller-signature")
        issued_at == header_or_empty(request, "x-caller-issued-at")
        tag == HmacSha256(secret[1], Payload(caller_id, issued_at))
        sig_bytes == hex_decode(signature)
        issued_time == parse_rfc3339(issued_at)
        age == now_ - issued_time
    IN IF caller_id = <<>> \/ signature = <<>> \/ issued_at = <<>>
       THEN Reject(MissingCallerToken)
       ELSE IF ~sig_bytes.ok
       THEN Reject(InvalidCallerTokenResponse("Signature is not valid hex"))
       ELSE IF ~verify_slice(tag, sig_bytes.bytes)
       THEN Reject(InvalidCallerTokenResponse("Signature mismatch"))
       ELSE IF issued_time = ParseError
       THEN Reject(InvalidCallerTokenResponse(
                "Invalid issued_at timestamp format (expected RFC 3339)"))
       ELSE IF num_seconds(age) > 300
       THEN Reject(ExpiredCallerTokenResponse(num_seconds(age)))
       ELSE IF num_seconds(age) < -30
       THEN Reject(InvalidCallerTokenResponse("Token issued_at is in the future"))
       ELSE Pass([request EXCEPT
                    !.extensions.caller = Some(GatewayCaller(caller_id))])

\* request.headers().get(name).and_then(|h| h.to_str().ok())
\*     .map(|s| s.trim().to_string()).filter(|s| !s.is_empty())
trimmed_header(request, name) ==
    LET h == request.headers[name]
    IN IF h = None THEN None
       ELSE IF to_str(h[1]) = None THEN None
       ELSE IF trim(to_str(h[1])[1]) = <<>> THEN None
       ELSE Some(trim(to_str(h[1])[1]))

MissingExecutionContextResponse ==
    Response(400, "Missing Execution Context",
             "x-execution-id and x-parent-span-id headers are required for all scan operations. This repository MUST NOT execute silently.",
             "EXECUTION_CONTEXT_REQUIRED", <<>>)

\* Mutant of execution_context_middleware: the headers are not trimmed, and a
\* header that is present counts as given.
execution_context_middleware_Untrimmed(request, uuid, now_) ==
    LET execution_id == header_or_empty(request, "x-execution-id")
        parent_span_id == header_or_empty(request, "x-parent-span-id")
    IN IF request.headers["x-execution-id"] # None
          /\ request.headers["x-parent-span-id"] # None
       THEN Pass([request EXCEPT !.extensions.span =
                    Some(new_repo(execution_id, parent_span_id, uuid, now_))])
       ELSE Reject(MissingExecutionContextResponse)

\* execution_context_middleware(request, next), at the instant now, with the
\* identifier drawn for the repo span.
execution_context_middleware(request, uuid, now_) ==
    LET execution_id == trimmed_header(request, "x-execution-id")
        parent_span_id == trimmed_header(request, "x-parent-span-id")
    IN IF execution_id # None /\ parent_span_id # None
       THEN Pass([request EXCEPT !.extensions.span =
                    Some(new_repo(execution_id[1], parent_span_id[1], uuid, now_))])
       ELSE Reject(MissingExecutionContextResponse)

\* ------------------------------------------------------------ input sets
CallerIds == {<<>>, <<"a">>, <<"b">>}
Secrets == {<<>>, <<"s", "1">>, <<"s", "2">>}
\* Option<i64> values given as ttl_seconds.
Ttls == {None, Some(300), Some(900)}
\* The first instant of a behaviour.
Epoch == Sec(1000)
\* issued_at instants of hand-made tokens, relative to the clock.
IssuedOffsets ==
    {0 - Sec(600), 0 - Sec(301), 0 - Sec(300) - 1, 0 - Sec(300),
     Sec(30), Sec(30) + 1, Sec(31)}
\* issued_at texts: the text of an instant, the empty text, a text that is no
\* timestamp.
IssuedTexts(now_) ==
    {to_rfc3339(now_ + o) : o \in IssuedOffsets} \cup {<<>>, <<"x">>}
\* signature texts for a token with the given caller_id and issued_at.
SignatureTexts(caller_id, issued_at) ==
    {compute_signature(caller_id, issued_at, s) : s \in Secrets}
        \cup {<<>>, DeadBeef, NotHex}
\* Clock steps: one tick, and the default TTL.
ClockSteps == {1, Sec(DEFAULT_TTL_SECONDS)}
\* Clock steps between the steps of gateway calls.
GatewayClockSteps == {Sec(DEFAULT_TOKEN_TTL_SECONDS) + 1}

Calls == 1..NCalls
Threads == 1..NThreads
\* Secrets and ttls gateways are constructed with.
CoreSecrets == {<<"s", "1">>}
CoreTtls == {DEFAULT_TOKEN_TTL_SECONDS, 900}

\* Caller tokens arriving in gateway contexts at the instant now: signed with
\* any secret, fresh or 301 s old, for two callers; one with a signature that
\* is not hex; one without caller_id.
GatewayTokens(now_) ==
    {CallerToken(c, compute_signature(c, i, k), i) :
        c \in {<<"a">>, <<"b">>},
        i \in {to_rfc3339(now_), to_rfc3339(now_ - Sec(301))},
        k \in Secrets}
    \cup {CallerToken(<<"a">>, NotHex, to_rfc3339(now_)),
          CallerToken(<<>>, compute_signature(<<>>, to_rfc3339(now_), <<"s", "1">>),
                      to_rfc3339(now_))}
ExecutionIds == {<<>>, <<"e">>}
ParentSpanIds == {<<>>, <<"p">>}
Contexts(now_) ==
    {GatewayContext(e, p, t) :
        e \in ExecutionIds, p \in ParentSpanIds, t \in GatewayTokens(now_)}
\* Operations and shield outcomes of calls in flight together.
ConcurrentOperations == {"scan_batch"}
ConcurrentOutcomes == {[ok |-> TRUE, value |-> "valid"], [ok |-> FALSE, value |-> "sdk error"]}
\* Contexts of calls in flight together: two callers with fresh tokens signed
\* with the gateway's secret.
ConcurrentContexts(now_) ==
    {GatewayContext(e, <<"p">>, CallerToken(c, compute_signature(c, to_rfc3339(now_), k),
                                            to_rfc3339(now_))) :
        e \in {<<"e">>}, c \in {<<"a">>, <<"b">>}, k \in CoreSecrets}

\* Header names of the scan routes.
HeaderNames ==
    {"x-caller-id", "x-caller-signature", "x-caller-issued-at",
     "x-execution-id", "x-parent-span-id"}
\* Values of GATEWAY_SHARED_SECRET: empty, or a secret.
EnvSecrets == {<<>>, <<"s", "1">>}
\* What a request carries as x-caller-id: nothing, the empty text, a caller.
CallerIdHeaders == {None, Some(HeaderValue(<<>>)), Some(HeaderValue(<<"a">>))}
\* As x-caller-issued-at: nothing, or one of the issued_at texts.
IssuedAtHeaders(now_) ==
    {None} \cup {Some(HeaderValue(i)) : i \in IssuedTexts(now_) \ {<<>>}}
\* As x-caller-signature: nothing, or a signature text for the caller_id and
\* issued_at the middleware will read.
SignatureHeaders(c, i) ==
    LET caller_id == IF c = None THEN <<>> ELSE c[1].text
        issued_at == IF i = None THEN <<>> ELSE i[1].text
    IN {None} \cup {Some(HeaderValue(g)) :
                      g \in {compute_signature(caller_id, issued_at, s) :
                               s \in {<<"s", "1">>, <<"s", "2">>}}
                            \cup {DeadBeef, NotHex}}
\* As x-execution-id and x-parent-span-id: nothing, blank texts, texts with
\* white space around an identifier, bytes that are no text.
ExecutionIdHeaders ==
    {None, Some(HeaderValue(<<" ">>)), Some(HeaderValue(<<" ", "e">>))}
ParentSpanIdHeaders ==
    {Some(HeaderValue(<<>>)), Some(OpaqueValue), Some(HeaderValue(<<"p">>))}
\* start_time texts of spans read from JSON: an instant before, at or after
\* the clock, or a text that is no timestamp.
StoredStartTimes(now_) ==
    {to_rfc3339(now_ + o) : o \in {0 - Sec(1), 0, 1, Sec(1)}} \cup {<<"x">>}
\* Clock steps while requests are served.
HttpClockSteps == {1}

\* ------------------------------------------------------------------ state
VARIABLES
    now,        \* the clock (Utc::now()), in ticks
    advances,   \* how many times the clock advanced
    token,      \* Option<CallerToken>: the token under test
    made,       \* how token came about: by create (arguments, instant, result) or by fields
    outcome,    \* Option: the last validate call on token, its arguments and result
    core,       \* Option<SecurityCore>: the gateway, once constructed
    calls,      \* per call slot: the state of the scan future and what it did
    running,    \* per thread: the call it is polling, or 0
    slot,       \* per thread: the thread's GATEWAY_TOKEN cell, Option<String>
    builder,    \* Option: the SecurityCoreBuilder in hand and the methods called on it
    built,      \* Option: the last build() call, its builder and its result
    span,       \* Option<ExecutionSpan>: the repo-level span in hand
    child,      \* Option<ExecutionSpan>: a span made and not yet appended to children
    output,     \* Option: what finalize returned
    uuids,      \* how many Uuid::new_v4() values were drawn
    spanops,    \* how many operations on spans were called
    environ,    \* Option<String>: the variable GATEWAY_SHARED_SECRET of the process
    GATEWAY_SECRET, \* the OnceLock: None, or Some of the secret option cached
    http,       \* the request on a scan route: the layer it is at, and the response
    requests    \* how many requests were received

httpVars == <<environ, GATEWAY_SECRET, http, requests>>
tokenVars == <<token, made, outcome>>
gatewayVars == <<core, calls, running, slot>>
buildVars == <<builder, built>>
spanVars == <<span, child, output, uuids, spanops>>
vars == <<now, advances, environ, GATEWAY_SECRET, http, requests,
          token, made, outcome, core, calls, running, slot,
          builder, built, span, child, output, uuids, spanops>>

NotMade == [by |-> "none", caller_id |-> <<>>, secret |-> <<>>, at |-> 0, result |-> Ok]

NoContext == GatewayContext(<<>>, <<>>, CallerToken(<<>>, <<>>, <<>>))
\* A call slot with no call in it.  pc: idle, created (the future exists and
\* was never polled), authorizing (policy.authorize was invoked and has not
\* returned), delegated (inside GATEWAY_TOKEN.scope, the shield's operation
\* was invoked and has not returned), done (the call returned result).
\* validated, policy_op, decided, shield_op and saw record what the call did:
\* the result of validate_context, the operation name given to the policy,
\* the result of authorize_operation, the shield method invoked, and the
\* values the delegated work read from the thread's cell, each with whether
\* the work had been suspended and resumed before.  held is the slot of the
\* future made by scope; resumed says that the delegated work was suspended
\* and polled again; at is the instant of the first poll; returned is what the
\* shield's operation ended with.
IdleCall ==
    [pc |-> "idle", op |-> "none", ctx |-> NoContext, at |-> 0, resumed |-> FALSE,
     validated |-> None,
     policy_op |-> None, decided |-> None, shield_op |-> None, held |-> None,
     saw |-> {}, returned |-> None, result |-> None]

\* No request received yet.  pc: idle, gateway (the request is at
\* gateway_middleware), context (at execution_context_middleware), handler
\* (handed to the route's handler), responded (a layer answered it).
\* checked_at is the instant at which gateway_middleware ran.
NoRequest ==
    [pc |-> "idle", request |-> Request([h \in HeaderNames |-> None]),
     checked_at |-> None, response |-> None]

Init ==
    /\ now = Epoch
    /\ advances = 0
    /\ token = None
    /\ made = NotMade
    /\ outcome = None
    /\ core = None
    /\ calls = [c \in Calls |-> IdleCall]
    /\ running = [t \in Threads |-> 0]
    /\ slot = [t \in Threads |-> None]
    /\ builder = None
    /\ built = None
    /\ span = None
    /\ child = None
    /\ output = None
    /\ uuids = 0
    /\ spanops = 0
    /\ environ = None
    /\ GATEWAY_SECRET = None
    /\ http = NoRequest
    /\ requests = 0

\* The clock advances.
Tick(d) ==
    /\ advances < MaxAdvance
    /\ now' = now + d
    /\ advances' = advances + 1
    /\ UNCHANGED <<tokenVars, gatewayVars, buildVars, spanVars, httpVars>>

\* let token = CallerToken::create(caller_id, shared_secret)
Create(caller_id, shared_secret) ==
    LET r == create(caller_id, shared_secret, now)
    IN /\ made.by = "none"
       /\ token' = r.token
       /\ made' = [by |-> "create", caller_id |-> caller_id, secret |-> shared_secret,
                   at |-> now, result |-> r.result]
       /\ outcome' = None
       /\ UNCHANGED <<now, advances, httpVars, gatewayVars, buildVars, spanVars>>

\* CallerToken { caller_id, signature, issued_at }: the fields are public, so a
\* token is also made by writing them (test_expired_token re-signs one).
SetFields(caller_id, issued_at, signature) ==
    /\ made.by = "none"
    /\ token' = Some(CallerToken(caller_id, signature, issued_at))
    /\ made' = [by |-> "fields", caller_id |-> caller_id, secret |-> <<>>,
                at |-> now, result |-> Ok]
    /\ outcome' = None
    /\ UNCHANGED <<now, advances, httpVars, gatewayVars, buildVars, spanVars>>

\* token.validate(shared_secret, ttl_seconds)
Validate(shared_secret, ttl_seconds) ==
    /\ token # None
    /\ outcome' = Some([secret |-> shared_secret, ttl |-> ttl_seconds, at |-> now,
                        result |-> validate(token[1], shared_secret, ttl_seconds, now)])
    /\ UNCHANGED <<now, advances, httpVars, token, made, gatewayVars, buildVars, spanVars>>

NextToken ==
    \/ \E d \in ClockSteps : Tick(d)
    \/ \E c \in CallerIds, s \in Secrets : Create(c, s)
    \/ \E c \in CallerIds, i \in IssuedTexts(now) :
          \E g \in SignatureTexts(c, i) : SetFields(c, i, g)
    \/ \E s \in Secrets, t \in Ttls : Validate(s, t)

SpecToken == Init /\ [][NextToken]_vars

\* Tokens whose payload "caller_id|issued_at" can be split in two ways: the
\* caller_id or the issued_at holds a "|" itself.
SplitCallerIds == {<<"a">>, <<"a", "|", "b">>}
SplitIssuedTexts(now_) == {to_rfc3339(now_), <<"b", "|">> \o to_rfc3339(now_)}
SplitSignatures(now_) ==
    {compute_signature(c, i, s) :
        c \in SplitCallerIds, i \in SplitIssuedTexts(now_), s \in Secrets \ {<<>>}}

NextSplit ==
    \/ \E d \in {1} : Tick(d)
    \/ \E c \in SplitCallerIds, i \in SplitIssuedTexts(now), g \in SplitSignatures(now) :
          SetFields(c, i, g)
    \/ \E s \in Secrets \ {<<>>}, t \in Ttls : Validate(s, t)

SpecSplit == Init /\ [][NextSplit]_vars

\* ----------------------------------------------------------- gateway steps
ThreadOf(c) == CHOOSE t \in Threads : running[t] = c
IsRunning(c) == \E t \in Threads : running[t] = c

\* Mutant of ValidationTime: a context that validated in an earlier call is
\* trusted as of that call.
ValidationTime_Trusted(c) ==
    IF \E d \in Calls : /\ d # c
                        /\ calls[d].ctx = calls[c].ctx
                        /\ calls[d].validated = Some(Ok)
    THEN calls[CHOOSE d \in Calls : /\ d # c
                                    /\ calls[d].ctx = calls[c].ctx
                                    /\ calls[d].validated = Some(Ok)].at
    ELSE now

\* The instant a call's token is validated against: Utc::now() read inside
\* CallerToken::validate, in the poll that runs validate_context.
ValidationTime(c) == now

\* SecurityCore::standard(shared_secret)
Standard(shared_secret) ==
    /\ core = None
    /\ core' = Some(standard(shared_secret))
    /\ UNCHANGED <<now, advances, httpVars, tokenVars, buildVars, spanVars, calls, running, slot>>

\* SecurityCore::builder().with_secret(..).with_token_ttl(..).with_policy(..).build()
Build(shared_secret, token_ttl_seconds, policy) ==
    LET r == build(with_policy(with_token_ttl(with_secret(SecurityCoreBuilder_new,
                                                          shared_secret),
                                              token_ttl_seconds), policy))
    IN
    /\ core = None
    /\ r.result = Ok
    /\ core' = r.core
    /\ UNCHANGED <<now, advances, httpVars, tokenVars, buildVars, spanVars, calls, running, slot>>

\* core.scan_prompt(text, &ctx), core.scan_output(text, &ctx) or
\* core.scan_batch(texts, &ctx) is called: the future is made, nothing runs.
Call(c, op, ctx) ==
    /\ core # None
    /\ calls[c].pc \in {"idle", "done"}
    /\ calls' = [calls EXCEPT ![c] = [IdleCall EXCEPT !.pc = "created", !.op = op,
                                                       !.ctx = ctx]]
    /\ UNCHANGED <<now, advances, httpVars, tokenVars, buildVars, spanVars, core, running, slot>>

\* The first poll of the future, on thread t: self.validate_context(ctx)?,
\* then self.authorize_operation(ctx, name) up to the policy's authorize.
FirstPoll(c, t) ==
    LET v == validate_context(core[1], calls[c].ctx, ValidationTime(c))
    IN /\ calls[c].pc = "created"
       /\ running[t] = 0
       /\ IF IsErr(v)
          THEN /\ calls' = [calls EXCEPT ![c].pc = "done", ![c].at = now,
                                         ![c].validated = Some(v),
                                         ![c].result = Some(v)]
               /\ UNCHANGED running
          ELSE /\ calls' = [calls EXCEPT ![c].pc = "authorizing", ![c].at = now,
                                         ![c].validated = Some(v),
                                         ![c].policy_op = Some(OperationName(calls[c].op))]
               /\ running' = [running EXCEPT ![t] = c]
       /\ UNCHANGED <<now, advances, httpVars, tokenVars, buildVars, spanVars, core, slot>>

\* The policy's authorize is not ready: the poll ends pending.
AuthorizePending(c) ==
    /\ calls[c].pc = "authorizing"
    /\ IsRunning(c)
    /\ running' = [running EXCEPT ![ThreadOf(c)] = 0]
    /\ UNCHANGED <<now, advances, httpVars, tokenVars, buildVars, spanVars, core, calls, slot>>

\* A suspended call is polled again, on any free thread.  Inside the scope
\* the poll begins by bringing the bound value into the thread's cell.
Resume(c, t) ==
    /\ calls[c].pc \in {"authorizing", "delegated"}
    /\ ~IsRunning(c)
    /\ running[t] = 0
    /\ running' = [running EXCEPT ![t] = c]
    /\ IF calls[c].pc = "delegated"
       THEN LET sw == swap_slot(slot[t], calls[c].held)
            IN /\ slot' = [slot EXCEPT ![t] = sw.cell]
               /\ calls' = [calls EXCEPT ![c].held = sw.stored, ![c].resumed = TRUE]
       ELSE UNCHANGED <<slot, calls>>
    /\ UNCHANGED <<now, advances, httpVars, tokenVars, buildVars, spanVars, core>>

\* The policy's authorize returns: authorize_operation ends; on Ok the call
\* goes on to GATEWAY_TOKEN.scope(ctx.caller.caller_id.clone(), ..).await,
\* whose first poll binds the value and invokes the shield's method.
AuthorizeReady(c) ==
    LET t == ThreadOf(c)
        a == authorize_operation(core[1], calls[c].ctx, OperationName(calls[c].op))
        sw == swap_slot(slot[t], Some(ScopeValue(calls[c].ctx)))
    IN /\ calls[c].pc = "authorizing"
       /\ IsRunning(c)
       /\ IF IsErr(a)
          THEN /\ calls' = [calls EXCEPT ![c].pc = "done", ![c].decided = Some(a),
                                         ![c].result = Some(a)]
               /\ running' = [running EXCEPT ![t] = 0]
               /\ UNCHANGED slot
          ELSE /\ calls' = [calls EXCEPT ![c].pc = "delegated", ![c].decided = Some(a),
                                         ![c].shield_op = Some(ShieldMethod(calls[c].op)),
                                         ![c].held = sw.stored]
               /\ slot' = [slot EXCEPT ![t] = sw.cell]
               /\ UNCHANGED running
       /\ UNCHANGED <<now, advances, httpVars, tokenVars, buildVars, spanVars, core>>

\* The delegated work reads the ambient caller identity (GATEWAY_TOKEN) on the
\* thread that polls it.
ShieldReads(c) ==
    /\ calls[c].pc = "delegated"
    /\ IsRunning(c)
    /\ calls' = [calls EXCEPT ![c].saw =
                    @ \cup {[resumed |-> calls[c].resumed, value |-> slot[ThreadOf(c)]]}]
    /\ UNCHANGED <<now, advances, httpVars, tokenVars, buildVars, spanVars, core, running, slot>>

\* The shield's operation is not ready: the poll ends pending, and the scope
\* takes the bound value back out of the thread's cell.
ShieldPending(c) ==
    LET t == ThreadOf(c)
        sw == swap_slot(slot[t], calls[c].held)
    IN /\ calls[c].pc = "delegated"
       /\ IsRunning(c)
       /\ slot' = [slot EXCEPT ![t] = sw.cell]
       /\ calls' = [calls EXCEPT ![c].held = sw.stored]
       /\ running' = [running EXCEPT ![t] = 0]
       /\ UNCHANGED <<now, advances, httpVars, tokenVars, buildVars, spanVars, core>>

\* The shield's operation returns: the scope ends, the result is passed on
\* (an SdkError wrapped as GatewayError::Shield) and the call returns.
ShieldReady(c, o) ==
    LET t == ThreadOf(c)
        sw == swap_slot(slot[t], calls[c].held)
    IN /\ calls[c].pc = "delegated"
       /\ IsRunning(c)
       /\ slot' = [slot EXCEPT ![t] = sw.cell]
       /\ calls' = [calls EXCEPT ![c].pc = "done", ![c].held = None,
                                 ![c].returned = Some(o),
                                 ![c].result = Some(ScanResult(o))]
       /\ running' = [running EXCEPT ![t] = 0]
       /\ UNCHANGED <<now, advances, httpVars, tokenVars, buildVars, spanVars, core>>

\* One call at a time, with every context, while the clock advances.
Next ==
    \/ \E s \in CoreSecrets \cup {<<>>} : Standard(s)
    \/ \E s \in CoreSecrets, l \in CoreTtls, p \in Policies : Build(s, l, p)
    \/ \E op \in Operations, ctx \in Contexts(now) : Call(1, op, ctx)
    \/ \E t \in Threads : FirstPoll(1, t)
    \/ AuthorizePending(1)
    \/ \E t \in Threads : Resume(1, t)
    \/ AuthorizeReady(1)
    \/ ShieldReads(1)
    \/ ShieldPending(1)
    \/ \E o \in ShieldOutcomes : ShieldReady(1, o)
    \/ \E d \in GatewayClockSteps : Tick(d)

Spec == Init /\ [][Next]_vars

\* ----------------------------------------------------------- builder steps
\* Inputs of the builder's methods.
BuilderSecrets == {<<>>, <<"s", "1">>}
BuilderTtls == {DEFAULT_TOKEN_TTL_SECONDS, 600}

\* SecurityCore::builder()
Builder ==
    /\ builder = None
    /\ core = None
    /\ builder' = Some([self |-> SecurityCoreBuilder_new, called |-> {}])
    /\ UNCHANGED <<now, advances, httpVars, tokenVars, gatewayVars, built, spanVars>>

\* One of the builder's setters is called: builder = builder.with_x(value).
With(method, after) ==
    /\ builder # None
    /\ builder' = Some([self |-> after, called |-> builder[1].called \cup {method}])
    /\ UNCHANGED <<now, advances, httpVars, tokenVars, gatewayVars, built, spanVars>>

WithSecret(secret) == With("with_secret", with_secret(builder[1].self, secret))
WithPreset(preset) == With("with_preset", with_preset(builder[1].self, preset))
WithTokenTtl(seconds) == With("with_token_ttl", with_token_ttl(builder[1].self, seconds))
WithPolicy(policy) == With("with_policy", with_policy(builder[1].self, policy))

\* builder.build(): the builder is consumed; the gateway exists on Ok only.
BuildCore ==
    LET r == build(builder[1].self)
    IN /\ builder # None
       /\ core = None
       /\ built' = Some([self |-> builder[1].self, called |-> builder[1].called,
                         result |-> r.result])
       /\ core' = r.core
       /\ builder' = None
       /\ UNCHANGED <<now, advances, httpVars, tokenVars, calls, running, slot, spanVars>>

NextBuild ==
    \/ Builder
    \/ \E s \in BuilderSecrets : WithSecret(s)
    \/ \E p \in Presets : WithPreset(p)
    \/ \E l \in BuilderTtls : WithTokenTtl(l)
    \/ \E p \in Policies : WithPolicy(p)
    \/ BuildCore

SpecBuild == Init /\ [][NextBuild]_vars

\* ------------------------------------------------- one context, presented again
\* Contexts made once, at the first instant: a fresh token of caller a, signed
\* with the gateway's secret or with another one.
RepeatContexts ==
    {GatewayContext(<<"e">>, <<"p">>,
                    CallerToken(<<"a">>, compute_signature(<<"a">>, to_rfc3339(Epoch), k),
                                to_rfc3339(Epoch))) : k \in {<<"s", "1">>, <<"s", "2">>}}
RepeatClockSteps == {Sec(DEFAULT_TOKEN_TTL_SECONDS), 1}
\* The context of the first call is presented again, in a second call.
CallAgain ==
    /\ calls[1].pc = "done"
    /\ Call(2, calls[1].op, calls[1].ctx)

NextRepeat ==
    \/ \E s \in CoreSecrets : Standard(s)
    \/ \E s \in CoreSecrets, l \in CoreTtls : Build(s, l, "DefaultPolicy")
    \/ \E op \in Operations, ctx \in RepeatContexts : calls[1].pc = "idle" /\ Call(1, op, ctx)
    \/ CallAgain
    \/ \E c \in {1, 2} : FirstPoll(c, 1)
    \/ \E c \in {1, 2} : AuthorizeReady(c)
    \/ \E c \in {1, 2}, o \in ConcurrentOutcomes : ShieldReady(c, o)
    \/ \E d \in RepeatClockSteps : Tick(d)

SpecRepeat == Init /\ [][NextRepeat]_vars

\* -------------------------------------------------------------- span steps
SpanExecutionIds == {<<"e">>}
SpanParentIds == {<<"p">>}
AgentNames == {"toxicity"}
ArtifactTypes == {"detection_signal"}
ArtifactData == {{<<"risk", "0.5">>}}
FailReasons == {"something went wrong"}
SpanClockSteps == {1}
\* Where a span is held: the repo span in hand, the span not yet appended, the
\* repo_span of the envelope finalize returned.
Holders == {"span", "child", "output"}

Held(x) ==
    CASE x = "span" -> span
      [] x = "child" -> child
      [] x = "output" -> IF output # None /\ output[1].ok
                         THEN Some(output[1].value[1].repo_span) ELSE None

\* The holders whose span the caller operates on (&mut self).
Owners == {"span", "child"}

\* The span held at x becomes s.
Put(x, s) ==
    CASE x = "span" -> span' = Some(s) /\ UNCHANGED <<child, output>>
      [] x = "child" -> child' = Some(s) /\ UNCHANGED <<span, output>>

\* let mut repo = ExecutionSpan::new_repo(execution_id, parent_span_id)
NewRepo(execution_id, parent_span_id) ==
    /\ span = None /\ output = None
    /\ span' = Some(new_repo(execution_id, parent_span_id, Uuid(uuids), now))
    /\ uuids' = uuids + 1
    /\ spanops < MaxSpanOps
    /\ spanops' = spanops + 1
    /\ UNCHANGED <<now, advances, httpVars, tokenVars, gatewayVars, buildVars, child, output>>

\* Mutant of NewAgent: the agent span is also appended to the repo span's
\* children.
NewAgent_Appends(agent_name) ==
    /\ span # None /\ child = None
    /\ child' = Some(new_agent(span[1], agent_name, Uuid(uuids), now))
    /\ span' = Some([span[1] EXCEPT !.children =
                        Append(@, new_agent(span[1], agent_name, Uuid(uuids), now))])
    /\ uuids' = uuids + 1
    /\ spanops < MaxSpanOps
    /\ spanops' = spanops + 1
    /\ UNCHANGED <<now, advances, httpVars, tokenVars, gatewayVars, buildVars, output>>

\* let mut agent = ExecutionSpan::new_agent(&repo, agent_name)
NewAgent(agent_name) ==
    /\ span # None /\ child = None
    /\ child' = Some(new_agent(span[1], agent_name, Uuid(uuids), now))
    /\ uuids' = uuids + 1
    /\ spanops < MaxSpanOps
    /\ spanops' = spanops + 1
    /\ UNCHANGED <<now, advances, httpVars, tokenVars, gatewayVars, buildVars, span, output>>

\* A span of another type is made, to be appended: a second repo span, or a
\* span written as a struct literal with span_type Core.
NewOther(span_type) ==
    /\ span # None /\ child = None
    /\ child' = Some([new_repo(span[1].execution_id, span[1].span_id, Uuid(uuids), now)
                        EXCEPT !.span_type = span_type])
    /\ uuids' = uuids + 1
    /\ spanops < MaxSpanOps
    /\ spanops' = spanops + 1
    /\ UNCHANGED <<now, advances, httpVars, tokenVars, gatewayVars, buildVars, span, output>>

\* x.attach_artifact(artifact_type, data)
AttachArtifact(x, artifact_type, data) ==
    /\ Held(x) # None
    /\ Put(x, attach_artifact(Held(x)[1], artifact_type, data, Uuid(uuids), now))
    /\ uuids' = uuids + 1
    /\ spanops < MaxSpanOps
    /\ spanops' = spanops + 1
    /\ UNCHANGED <<now, advances, httpVars, tokenVars, gatewayVars, buildVars>>

\* x.complete()
Complete(x) ==
    /\ Held(x) # None
    /\ Put(x, complete(Held(x)[1], now))
    /\ spanops < MaxSpanOps
    /\ spanops' = spanops + 1
    /\ UNCHANGED <<now, advances, httpVars, tokenVars, gatewayVars, buildVars, uuids>>

\* x.fail(error)
Fail(x, error) ==
    /\ Held(x) # None
    /\ Put(x, fail(Held(x)[1], error, Uuid(uuids), now))
    /\ uuids' = uuids + 1
    /\ spanops < MaxSpanOps
    /\ spanops' = spanops + 1
    /\ UNCHANGED <<now, advances, httpVars, tokenVars, gatewayVars, buildVars>>

\* repo.children.push(agent)
PushChild ==
    /\ span # None /\ child # None
    /\ span' = Some([span[1] EXCEPT !.children = Append(@, child[1])])
    /\ child' = None
    /\ spanops < MaxSpanOps
    /\ spanops' = spanops + 1
    /\ UNCHANGED <<now, advances, httpVars, tokenVars, gatewayVars, buildVars, output, uuids>>

\* let result = repo.finalize(): the span is moved into the call.
Finalize ==
    /\ span # None
    /\ output' = Some(finalize(span[1], now))
    /\ span' = None
    /\ spanops < MaxSpanOps
    /\ spanops' = spanops + 1
    /\ UNCHANGED <<now, advances, httpVars, tokenVars, gatewayVars, buildVars, child, uuids>>

NextSpan ==
    \/ \E e \in SpanExecutionIds, p \in SpanParentIds : NewRepo(e, p)
    \/ \E n \in AgentNames : NewAgent(n)
    \/ \E ty \in {"Repo", "Core"} : NewOther(ty)
    \/ \E ty \in ArtifactTypes, data \in ArtifactData : AttachArtifact("span", ty, data)
    \/ \E x \in Owners : Complete(x)
    \/ \E x \in Owners, e \in FailReasons : Fail(x, e)
    \/ PushChild
    \/ Finalize
    \/ \E d \in SpanClockSteps : advances < MaxSpanAdvance /\ Tick(d)

SpecSpan == Init /\ [][NextSpan]_vars

\* let repo: ExecutionSpan = serde_json::from_str(..): a span is read from its
\* JSON form (ExecutionSpan derives Deserialize), here a repo span as new_repo
\* makes it, with the start_time the JSON carries.
Deserialize(execution_id, parent_span_id, start_time) ==
    /\ span = None /\ output = None
    /\ span' = Some([new_repo(execution_id, parent_span_id, Uuid(uuids), now)
                       EXCEPT !.start_time = start_time])
    /\ uuids' = uuids + 1
    /\ spanops < MaxSpanOps
    /\ spanops' = spanops + 1
    /\ UNCHANGED <<now, advances, httpVars, tokenVars, gatewayVars, buildVars, child, output>>

\* Spans whose start_time was not written by this process's clock.
NextStored ==
    \/ \E e \in SpanExecutionIds, p \in SpanParentIds, s \in StoredStartTimes(now) :
          Deserialize(e, p, s)
    \/ Complete("span")
    \/ \E e \in FailReasons : Fail("span", e)
    \/ \E d \in SpanClockSteps : advances < MaxSpanAdvance /\ Tick(d)

SpecStored == Init /\ [][NextStored]_vars

\* ---------------------------------------------------- scan route steps
\* The process is started with GATEWAY_SHARED_SECRET set to v.
SetEnv(v) ==
    /\ environ = None
    /\ GATEWAY_SECRET = None
    /\ http.pc = "idle"
    /\ environ' = Some(v)
    /\ UNCHANGED <<now, advances, tokenVars, gatewayVars, buildVars, spanVars,
                   GATEWAY_SECRET, http, requests>>

\* A request arrives on a scan route: the outermost layer,
\* gateway_middleware, gets it.
Receive(headers) ==
    /\ http.pc = "idle"
    /\ requests < MaxRequests
    /\ requests' = requests + 1
    /\ http' = [pc |-> "gateway", request |-> Request(headers),
                checked_at |-> None, response |-> None]
    /\ UNCHANGED <<now, advances, tokenVars, gatewayVars, buildVars, spanVars,
                   environ, GATEWAY_SECRET>>

\* gateway_middleware(request, next) runs.
RunGatewayMiddleware ==
    /\ http.pc = "gateway"
    /\ GATEWAY_SECRET' = get_gateway_secret(GATEWAY_SECRET, environ)
    /\ LET r == gateway_middleware(http.request,
                                   get_gateway_secret(GATEWAY_SECRET, environ)[1], now)
       IN http' = IF r.response # None
                  THEN [http EXCEPT !.pc = "responded", !.response = r.response,
                                    !.checked_at = Some(now)]
                  ELSE [http EXCEPT !.pc = "context", !.request = r.next[1],
                                    !.checked_at = Some(now)]
    /\ UNCHANGED <<now, advances, tokenVars, gatewayVars, buildVars, spanVars,
                   environ, requests>>

\* execution_context_middleware(request, next) runs; when it lets the request
\* through, next is the route's handler.
RunExecutionContextMiddleware ==
    /\ http.pc = "context"
    /\ LET r == execution_context_middleware(http.request, Uuid(uuids), now)
       IN /\ http' = IF r.response # None
                     THEN [http EXCEPT !.pc = "responded", !.response = r.response]
                     ELSE [http EXCEPT !.pc = "handler", !.request = r.next[1]]
          /\ uuids' = IF r.response # None THEN uuids ELSE uuids + 1
    /\ UNCHANGED <<now, advances, tokenVars, gatewayVars, buildVars,
                   span, child, output, spanops, environ, GATEWAY_SECRET, requests>>

\* The exchange ends: the response of the layer that answered, or of the
\* handler, has gone back to the client.
Close ==
    /\ http.pc \in {"handler", "responded"}
    /\ http' = NoRequest
    /\ UNCHANGED <<now, advances, tokenVars, gatewayVars, buildVars, spanVars,
                   environ, GATEWAY_SECRET, requests>>

NextHttp ==
    \/ \E v \in EnvSecrets : SetEnv(v)
    \/ /\ http.pc = "idle" /\ requests < MaxRequests
       /\ \E c \in CallerIdHeaders, i \in IssuedAtHeaders(now),
             e \in ExecutionIdHeaders, p \in ParentSpanIdHeaders :
          \E g \in SignatureHeaders(c, i) :
             Receive([h \in HeaderNames |->
                        CASE h = "x-caller-id" -> c
                          [] h = "x-caller-issued-at" -> i
                          [] h = "x-caller-signature" -> g
                          [] h = "x-execution-id" -> e
                          [] h = "x-parent-span-id" -> p])
    \/ RunGatewayMiddleware
    \/ RunExecutionContextMiddleware
    \/ Close
    \/ \E d \in HttpClockSteps : advances < MaxHttpAdvance /\ Tick(d)

SpecHttp == Init /\ [][NextHttp]_vars

\* Calls in flight together on the worker threads.
NextConcurrent ==
    \/ \E s \in CoreSecrets : Standard(s)
    \/ \E c \in Calls, op \in ConcurrentOperations, ctx \in ConcurrentContexts(now) :
          Call(c, op, ctx)
    \/ \E c \in Calls, t \in Threads : FirstPoll(c, t)
    \/ \E c \in Calls : AuthorizePending(c)
    \/ \E c \in Calls, t \in Threads : Resume(c, t)
    \/ \E c \in Calls : AuthorizeReady(c)
    \/ \E c \in Calls : ShieldReads(c)
    \/ \E c \in Calls : ShieldPending(c)
    \/ \E c \in Calls, o \in ConcurrentOutcomes : ShieldReady(c, o)

SpecConcurrent == Init /\ [][NextConcurrent]_vars

\* ------------------------------------------------- claims on CallerToken
\* The token under test and its last validation, when there are any.
Tok == token[1]
Out == outcome[1]
Validated == token # None /\ outcome # None
\* The token carries the MAC of its own payload under the given secret.
SignedWith(secret) ==
    Tok.signature = compute_signature(Tok.caller_id, Tok.issued_at, secret)
\* The token's age at its last validation, in ticks (its issued_at parses).
AgeAtValidation == Out.at - parse_rfc3339(Tok.issued_at)
WellFormed ==
    /\ Tok.caller_id # <<>>
    /\ Tok.issued_at # <<>>
    /\ parse_rfc3339(Tok.issued_at) # ParseError

\* C4: for every non-empty caller_id and non-empty shared_secret, create
\* returns a token, and that token passes validate(secret, None) whenever its
\* age at validation is within the default TTL of 300 s.
C4_CreateThenValidate ==
    /\ (made.by = "create" /\ made.caller_id # <<>> /\ made.secret # <<>>)
          => (made.result = Ok /\ token # None)
    /\ (/\ Validated
        /\ made.by = "create"
        /\ Out.secret = made.secret
        /\ Out.ttl = None
        /\ Out.at - made.at <= Sec(DEFAULT_TTL_SECONDS))
          => Out.result = Ok

\* A created token validated with its secret and no ttl at an age of exactly 300 s.
C4_Witness ==
    /\ Validated
    /\ made.by = "create"
    /\ Out.secret = made.secret
    /\ Out.ttl = None
    /\ Out.at - made.at = Sec(DEFAULT_TTL_SECONDS)
    /\ Out.result = Ok

C6_ExpiryByWholeSeconds ==
    (/\ Validated
     /\ WellFormed
     /\ SignedWith(Out.secret)
     /\ AgeAtValidation >= 0
     /\ AgeAtValidation % TicksPerSec = 0)
       => LET a == AgeAtValidation \div TicksPerSec
              t == TtlOf(Out.ttl)
          IN /\ a > t => Out.result.kind = "ExpiredCallerToken"
             /\ a <= t => Out.result = Ok
             /\ (a = 600 /\ Out.ttl = Some(300)) => Out.result.kind = "ExpiredCallerToken"
             /\ (a = 600 /\ Out.ttl = Some(900)) => Out.result = Ok

\* A correctly signed token aged exactly its ttl of 300 s is accepted.
C6_Witness ==
    /\ Validated
    /\ WellFormed
    /\ SignedWith(Out.secret)
    /\ AgeAtValidation = Sec(300)
    /\ Out.ttl = Some(300)
    /\ Out.result = Ok

\* C7: a correctly signed token whose issued_at lies more than 30 s after the
\* validation instant, by any amount, fails with the invalid-token error for
\* every ttl >= 0.
C7_FutureTokenIsInvalid ==
    (/\ Validated
     /\ WellFormed
     /\ SignedWith(Out.secret)
     /\ TtlOf(Out.ttl) >= 0
     /\ 0 - AgeAtValidation > Sec(MAX_CLOCK_SKEW_SECONDS))
       => Out.result.kind = "InvalidCallerToken"

\* C26: validate returns the expired-token error only for a token whose
\* fields are all non-empty, whose signature verifies under the given secret
\* and whose issued_at parses; a token with all fields whose signature does
\* not verify gets the invalid-token error of the signature step, also when
\* its issued_at is over-age or does not parse.
C26_ExpiredOnlyAfterOtherChecks ==
    /\ (Validated /\ Out.result.kind = "ExpiredCallerToken") =>
          /\ Tok.caller_id # <<>> /\ Tok.signature # <<>> /\ Tok.issued_at # <<>>
          /\ SignedWith(Out.secret)
          /\ parse_rfc3339(Tok.issued_at) # ParseError
    /\ (/\ Validated
        /\ Tok.caller_id # <<>> /\ Tok.signature # <<>> /\ Tok.issued_at # <<>>
        /\ ~SignedWith(Out.secret))
          => /\ Out.result.kind = "InvalidCallerToken"
             /\ Out.result.msg \in {"signature is not valid hex", "signature mismatch"}

\* A token 301 s old with a well-formed signature that is no MAC of its
\* payload, validated under the ttl of 300 s, was found invalid.
C26_Witness ==
    /\ Validated
    /\ WellFormed
    /\ Tok.signature = DeadBeef
    /\ AgeAtValidation = Sec(301)
    /\ TtlOf(Out.ttl) = 300
    /\ Out.result = InvalidCallerToken("signature mismatch")

\* C27 (as stated): validate compares the token's age with the ttl at the
\* clock's resolution: a correctly signed token is accepted when its age is
\* at most ttl and is expired when its age exceeds ttl by any positive
\* amount, a fraction of a second included.
C27_ExpiryAtClockResolution ==
    (/\ Validated
     /\ WellFormed
     /\ SignedWith(Out.secret)
     /\ AgeAtValidation >= 0)
       => /\ AgeAtValidation <= Sec(TtlOf(Out.ttl)) => Out.result = Ok
          /\ AgeAtValidation > Sec(TtlOf(Out.ttl)) =>
                Out.result.kind = "ExpiredCallerToken"

\* C37: a signature binds the caller identity: for a fixed secret, a
\* signature with which validate accepts a token is accepted for no token
\* with another caller_id, whatever its issued_at, the ttl and the instant,
\* although the payload is the plain concatenation caller_id|issued_at and
\* caller_id may hold a "|": the other split of the payload has an issued_at
\* that holds a "|", which is no timestamp.
C37_SignatureBindsCaller ==
    (Validated /\ Out.result = Ok) =>
        \A c2 \in SplitCallerIds \cup CallerIds, l \in Ttls :
            \A i2 \in SplitIssuedTexts(made.at) \cup IssuedTexts(made.at) :
                c2 # Tok.caller_id =>
                    validate(CallerToken(c2, Tok.signature, i2), Out.secret, l, Out.at) # Ok

\* A token whose caller_id holds a "|" was accepted; the token with the same
\* signature and the same payload split at the first "|" is not.
C37_Witness ==
    /\ Validated
    /\ Out.result = Ok
    /\ Tok.caller_id = <<"a", "|", "b">>
    /\ Payload(<<"a">>, <<"b", "|">> \o Tok.issued_at) = Payload(Tok.caller_id, Tok.issued_at)
    /\ IsErr(validate(CallerToken(<<"a">>, Tok.signature, <<"b", "|">> \o Tok.issued_at),
                      Out.secret, Out.ttl, Out.at))

\* ------------------------------------------------- claims on the gateway
TheCore == core[1]
CallerOf(c) == calls[c].ctx.caller.caller_id
\* The call was polled: validate_context has run for it.
Polled(c) == calls[c].validated # None
\* What CallerToken::validate makes of the call's token with the gateway's
\* secret and ttl at the instant the call was validated.
TokenCheck(c) ==
    validate(calls[c].ctx.caller, TheCore.shared_secret,
             Some(TheCore.token_ttl_seconds), calls[c].at)
HasProvenance(c) ==
    calls[c].ctx.execution_id # <<>> /\ calls[c].ctx.parent_span_id # <<>>
\* What the configured policy answers for the call.
PolicyAnswer(c) == Authorize(TheCore.policy, calls[c].ctx, calls[c].op)

\* C1: in every gateway call the shield's operation is invoked only if
\* validate_context succeeded and the policy allowed that same call (non-empty
\* execution_id and parent_span_id, a token valid at that instant, an allowed
\* decision); a call that fails at validation or authorization invokes it
\* zero times.
C1_ShieldOnlyAfterChecks ==
    \A c \in Calls :
        /\ calls[c].shield_op # None =>
              /\ calls[c].validated = Some(Ok)
              /\ calls[c].decided = Some(Ok)
              /\ HasProvenance(c)
              /\ TokenCheck(c) = Ok
              /\ ~IsErr(PolicyAnswer(c).err)
              /\ PolicyAnswer(c).decision.allowed
        /\ (calls[c].pc = "done"
            /\ (calls[c].validated # Some(Ok) \/ calls[c].decided # Some(Ok)))
              => calls[c].shield_op = None

\* A call that passed both checks and whose shield operation returned a result.
C1_Witness ==
    /\ calls[1].pc = "done"
    /\ calls[1].shield_op = Some("Shield::scan_output")
    /\ calls[1].result = Some([kind |-> "Ok", msg |-> "risky"])

\* C2: whatever the interleaving of the polls of the calls in flight, on
\* whatever threads, every value the delegated work of a call reads from the
\* ambient binding is that call's own caller_id.
C2_ReadsOwnCaller ==
    \A c \in Calls : \A r \in calls[c].saw : r.value = Some(CallerOf(c))

\* Two calls of different callers are inside their delegated work together;
\* one has read the binding after being suspended and resumed, the other has
\* read it too.
C2_Witness ==
    \E c, d \in Calls :
        /\ CallerOf(c) # CallerOf(d)
        /\ calls[c].pc = "delegated" /\ calls[d].pc = "delegated"
        /\ \E r \in calls[c].saw : r.resumed
        /\ calls[d].saw # {}

\* C3: the ambient binding exists exactly during the delegation step: a
\* thread's cell is empty while it polls no call and while it polls a call
\* that is validating or authorizing, it holds the caller_id of the call's
\* token whenever the thread polls the delegated work (the first poll and
\* every resumption), and nothing stays bound once the call has returned,
\* with a result or with an error.
C3_BindingScopedToDelegation ==
    /\ \A t \in Threads :
          IF running[t] # 0 /\ calls[running[t]].pc = "delegated"
          THEN slot[t] = Some(CallerOf(running[t]))
          ELSE slot[t] = None
    /\ \A c \in Calls :
          /\ calls[c].pc \in {"created", "authorizing", "done"} => calls[c].held = None
          /\ (calls[c].pc = "delegated" /\ ~IsRunning(c))
                => calls[c].held = Some(CallerOf(c))

\* A call of caller b whose delegated work was suspended and resumed has
\* returned the shield's error, and no thread's cell holds a value.
C3_Witness ==
    \E c \in Calls :
        /\ calls[c].pc = "done"
        /\ CallerOf(c) = <<"b">>
        /\ calls[c].resumed
        /\ calls[c].result = Some(ShieldError("sdk error"))
        /\ \A t \in Threads : slot[t] = None

\* C8: a call whose context has an empty execution_id or an empty
\* parent_span_id fails with the missing-execution-context error, also when
\* its token is invalid or expired, and neither the policy nor the shield is
\* invoked.
C8_MissingContextFirst ==
    \A c \in Calls :
        (Polled(c) /\ ~HasProvenance(c)) =>
            /\ calls[c].pc = "done"
            /\ calls[c].result # None
            /\ calls[c].result[1].kind = "MissingExecutionContext"
            /\ calls[c].policy_op = None
            /\ calls[c].shield_op = None

\* A call with an empty execution_id and a token signed with another secret
\* returned the missing-execution-context error.
C8_Witness ==
    /\ calls[1].pc = "done"
    /\ calls[1].ctx.execution_id = <<>>
    /\ calls[1].ctx.parent_span_id # <<>>
    /\ TokenCheck(1).kind = "InvalidCallerToken"
    /\ calls[1].result = Some(MissingExecutionContext("execution_id is required"))

\* C9: with non-empty execution_id and parent_span_id, a call whose token
\* fails CallerToken::validate against the gateway's secret and ttl returns
\* exactly the error validate produced: invalid-caller-token for a token
\* signed with another secret, expired-caller-token for an over-age token.
C9_TokenErrorUnchanged ==
    \A c \in Calls :
        (Polled(c) /\ HasProvenance(c) /\ IsErr(TokenCheck(c))) =>
            /\ calls[c].pc = "done"
            /\ calls[c].result = Some(TokenCheck(c))
            /\ (calls[c].ctx.caller.caller_id # <<>>
                /\ \E k \in Secrets :
                      /\ k # TheCore.shared_secret
                      /\ calls[c].ctx.caller.signature =
                            compute_signature(calls[c].ctx.caller.caller_id,
                                              calls[c].ctx.caller.issued_at, k))
                  => calls[c].result[1].kind = "InvalidCallerToken"
            /\ (/\ calls[c].ctx.caller.caller_id # <<>>
                /\ calls[c].ctx.caller.signature =
                      compute_signature(calls[c].ctx.caller.caller_id,
                                        calls[c].ctx.caller.issued_at,
                                        TheCore.shared_secret)
                /\ num_seconds(calls[c].at - parse_rfc3339(calls[c].ctx.caller.issued_at))
                      > TheCore.token_ttl_seconds)
                  => calls[c].result[1].kind = "ExpiredCallerToken"

\* A call with a correctly signed token aged 301 s returned expired-caller-token
\* from a gateway with the default ttl.
C9_Witness ==
    /\ calls[1].pc = "done"
    /\ HasProvenance(1)
    /\ TheCore.token_ttl_seconds = DEFAULT_TOKEN_TTL_SECONDS
    /\ calls[1].result # None
    /\ calls[1].result[1].kind = "ExpiredCallerToken"
    /\ calls[1].result[1].age = 301

\* C10 as stated: under a policy that denies every operation, every scan call
\* fails with the policy-denied error carrying the policy's reason, whether
\* the token is valid, invalid or expired.
C10_DenyAllRegardlessOfToken ==
    \A c \in Calls :
        (core # None /\ TheCore.policy = "DenyAll" /\ calls[c].pc = "done")
            => calls[c].result = Some(PolicyDenied(DenyAllReason))

\* C10 amended: under a policy that denies every operation, every scan call
\* (scan_prompt, scan_output, scan_batch) whose context passes
\* validate_context fails with the policy-denied error carrying the policy's
\* reason and the shield is not invoked; a call whose context fails
\* validate_context returns that validation error and the policy is not
\* consulted.
C10_DenyAllAfterValidation ==
    \A c \in Calls :
        (core # None /\ TheCore.policy = "DenyAll" /\ calls[c].pc = "done") =>
            IF HasProvenance(c) /\ TokenCheck(c) = Ok
            THEN /\ calls[c].result = Some(PolicyDenied(DenyAllReason))
                 /\ calls[c].policy_op = Some(calls[c].op)
                 /\ calls[c].shield_op = None
            ELSE /\ calls[c].result # None
                 /\ calls[c].result[1].kind \in
                       {"MissingExecutionContext", "InvalidCallerToken",
                        "ExpiredCallerToken"}
                 /\ calls[c].policy_op = None
                 /\ calls[c].shield_op = None

\* A scan_batch call with a valid context was denied with the policy's reason.
C10_Witness ==
    /\ core # None
    /\ TheCore.policy = "DenyAll"
    /\ calls[1].pc = "done"
    /\ calls[1].op = "scan_batch"
    /\ HasProvenance(1) /\ TokenCheck(1) = Ok
    /\ calls[1].result = Some(PolicyDenied(DenyAllReason))

\* The policy's authorize returned an error for a call that reached it.
PolicyErred(c) == calls[c].decided # None /\ IsErr(PolicyAnswer(c).err)
\* The policy's authorize returned a decision with allowed = false.
PolicyRefused(c) ==
    /\ calls[c].decided # None
    /\ ~IsErr(PolicyAnswer(c).err)
    /\ ~PolicyAnswer(c).decision.allowed

\* C11 as stated: when the policy's authorize returns an error, the call fails
\* with that same error, and the outcome can be told apart from the
\* policy-denied error of a denial (it is not a policy-denied error).
C11_PolicyErrorDistinctFromDenied ==
    \A c \in Calls :
        (calls[c].pc = "done" /\ PolicyErred(c)) =>
            /\ calls[c].result = Some(PolicyAnswer(c).err)
            /\ calls[c].result[1].kind # "PolicyDenied"

\* C11 amended: when the policy's authorize returns an error, the call fails
\* with exactly that error (kind and message), the gateway does not turn it
\* into a policy-denied error of its own, and the shield is not invoked; the
\* outcome is a policy-denied error only when the policy's own error is one.
C11_PolicyErrorUnchanged ==
    \A c \in Calls :
        (calls[c].pc = "done" /\ PolicyErred(c)) =>
            /\ calls[c].result = Some(PolicyAnswer(c).err)
            /\ calls[c].decided = Some(PolicyAnswer(c).err)
            /\ calls[c].shield_op = None
            /\ (PolicyAnswer(c).err.kind # "PolicyDenied"
                  => calls[c].result[1].kind # "PolicyDenied")

\* A scan_prompt call under the Unreachable policy returned the policy's error.
C11_Witness ==
    /\ core # None
    /\ TheCore.policy = "Unreachable"
    /\ calls[1].pc = "done"
    /\ calls[1].op = "scan_prompt"
    /\ calls[1].policy_op = Some("scan_prompt")
    /\ calls[1].result = Some(UnreachableError)

\* C12 as stated: a call stopped in the authorize step, by a decision with
\* allowed = false or by an error of the policy check, fails with the
\* policy-denied error.
C12_StoppedMeansPolicyDenied ==
    \A c \in Calls :
        (calls[c].pc = "done" /\ (PolicyRefused(c) \/ PolicyErred(c)))
            => calls[c].result[1].kind = "PolicyDenied"

\* C12 amended: a call stopped in the authorize step by a decision with
\* allowed = false fails with the policy-denied error (carrying the
\* decision's reason, or the empty message); a call stopped by an error of
\* the policy check fails with that error, whatever its kind.  In both cases
\* the shield is not invoked.
C12_DeniedOrPolicyError ==
    \A c \in Calls :
        /\ (calls[c].pc = "done" /\ PolicyRefused(c)) =>
              /\ calls[c].result # None
              /\ calls[c].result[1].kind = "PolicyDenied"
              /\ calls[c].result[1].msg \in {"", DenyAllReason}
              /\ calls[c].shield_op = None
        /\ (calls[c].pc = "done" /\ PolicyErred(c)) =>
              /\ calls[c].result # None
              /\ calls[c].result[1].kind = PolicyAnswer(c).err.kind
              /\ calls[c].result[1].msg = PolicyAnswer(c).err.msg
              /\ calls[c].shield_op = None

\* One gateway's policy check failed with an error that is not policy-denied
\* and the scan_batch call returned it.
C12_Witness ==
    /\ core # None
    /\ calls[1].pc = "done"
    /\ calls[1].op = "scan_batch"
    /\ PolicyErred(1)
    /\ calls[1].result # None
    /\ calls[1].result[1].kind = "DirectAccess"

\* C13: the policy's authorize is invoked only for a call whose
\* validate_context succeeded (non-empty execution_id and parent_span_id, a
\* token valid at that instant), and it is given the name of the called
\* operation: scan_prompt, scan_output or scan_batch.
C13_PolicyAfterValidation ==
    \A c \in Calls :
        /\ calls[c].policy_op # None =>
              /\ calls[c].validated = Some(Ok)
              /\ HasProvenance(c)
              /\ TokenCheck(c) = Ok
              /\ calls[c].policy_op = Some(calls[c].op)
              /\ calls[c].op \in Operations
        /\ calls[c].decided # None => calls[c].policy_op # None
        /\ (Polled(c) /\ calls[c].validated # Some(Ok)) => calls[c].policy_op = None

\* The policy was asked about a scan_output call with a validated context and
\* has not answered yet.
C13_Witness ==
    /\ calls[1].pc = "authorizing"
    /\ calls[1].op = "scan_output"
    /\ calls[1].validated = Some(Ok)
    /\ calls[1].policy_op = Some("scan_output")

\* C14: for a call whose context validated and whose policy allowed, the
\* gateway returns what the shield's operation returned: its result as it is,
\* its error wrapped in the Shield variant with the cause kept; the shield's
\* operation is the one matching the call.
C14_ForwardsShieldOutcome ==
    \A c \in Calls :
        (calls[c].pc = "done" /\ calls[c].validated = Some(Ok)
            /\ calls[c].decided = Some(Ok)) =>
            /\ calls[c].returned # None
            /\ calls[c].shield_op = Some(ShieldMethod(calls[c].op))
            /\ calls[c].result # None
            /\ IF calls[c].returned[1].ok
               THEN /\ calls[c].result[1].kind = "Ok"
                    /\ calls[c].result[1].msg = calls[c].returned[1].value
               ELSE /\ calls[c].result[1].kind = "Shield"
                    /\ calls[c].result[1].msg = calls[c].returned[1].value

\* The shield's scan_prompt failed with an SdkError and the call returned it
\* wrapped.
C14_Witness ==
    /\ calls[1].pc = "done"
    /\ calls[1].op = "scan_prompt"
    /\ calls[1].returned = Some([ok |-> FALSE, value |-> "sdk error"])
    /\ calls[1].result = Some(ShieldError("sdk error"))

\* C16: the gateway keeps no trust state between calls.  Every call validates
\* its context at its own instant, whatever earlier calls with the same
\* context returned: a call made once the token's age exceeds the ttl fails
\* with expired-caller-token also when an earlier call with that token
\* succeeded; and no step of any call changes the gateway's secret, ttl or
\* policy.
C16_NoTrustBetweenCalls ==
    /\ [](\A c \in Calls :
            Polled(c) =>
              /\ calls[c].validated = Some(validate_context(TheCore, calls[c].ctx, calls[c].at))
              /\ \A d \in Calls :
                    (/\ calls[d].validated = Some(Ok)
                     /\ calls[d].ctx = calls[c].ctx
                     /\ num_seconds(calls[c].at - parse_rfc3339(calls[c].ctx.caller.issued_at))
                           > TheCore.token_ttl_seconds)
                      => /\ calls[c].pc = "done"
                         /\ calls[c].result # None
                         /\ calls[c].result[1].kind = "ExpiredCallerToken"
                         /\ calls[c].shield_op = None)
    /\ [][core # None => core' = core]_vars

\* The first call with a context succeeded; the second call, with the same
\* context and made when the token was past the ttl, failed as expired.
C16_Witness ==
    /\ calls[1].pc = "done" /\ calls[2].pc = "done"
    /\ calls[1].ctx = calls[2].ctx
    /\ calls[1].result = Some([kind |-> "Ok", msg |-> "valid"])
    /\ calls[2].result # None
    /\ calls[2].result[1].kind = "ExpiredCallerToken"

\* C28: for a call whose context validates, a policy decision with
\* allowed = false makes the call fail with the policy-denied error whose
\* message is exactly the decision's reason, or the empty string when the
\* decision has no reason; the shield's operation is not invoked.
C28_DenialCarriesReason ==
    \A c \in Calls :
        (/\ core # None
         /\ calls[c].pc = "done"
         /\ HasProvenance(c)
         /\ TokenCheck(c) = Ok
         /\ ~IsErr(PolicyAnswer(c).err)
         /\ ~PolicyAnswer(c).decision.allowed)
          => LET reason == PolicyAnswer(c).decision.reason
             IN /\ calls[c].result =
                      Some(PolicyDenied(IF reason = None THEN "" ELSE reason[1]))
                /\ calls[c].policy_op = Some(calls[c].op)
                /\ calls[c].shield_op = None
                /\ calls[c].returned = None

\* A call with a valid context was denied by a policy that gives no reason,
\* and failed with the policy-denied error with the empty message.
C28_Witness ==
    /\ core # None
    /\ TheCore.policy = "DenySilently"
    /\ calls[1].pc = "done"
    /\ HasProvenance(1) /\ TokenCheck(1) = Ok
    /\ PolicyAnswer(1).decision.reason = None
    /\ calls[1].result = Some(PolicyDenied(""))
    /\ calls[1].shield_op = None

\* C36 (as stated): every SecurityCore that exists, however it was
\* constructed, has a non-empty shared secret, and no gateway call accepts a
\* token signed with the empty key.
C36_NoGatewayWithEmptySecret ==
    /\ core # None => TheCore.shared_secret # <<>>
    /\ \A c \in Calls :
          calls[c].validated = Some(Ok) =>
              calls[c].ctx.caller.signature #
                  compute_signature(calls[c].ctx.caller.caller_id,
                                    calls[c].ctx.caller.issued_at, <<>>)

\* ---------------------------------------------------- claims on the builder
\* C15: build fails with an error and constructs no gateway whenever no
\* secret was supplied or the supplied secret is empty, whatever preset, ttl
\* and policy were set; with a non-empty secret it succeeds, the gateway has
\* the secret and the settings given, and for the settings left unset it has
\* the allow-all DefaultPolicy and the ttl of 300 s.
C15_BuildNeedsSecret ==
    built # None =>
        LET b == built[1]
        IN IF "with_secret" \notin b.called \/ b.self.shared_secret = <<>>
           THEN /\ IsErr(b.result)
                /\ core = None
           ELSE /\ b.result = Ok
                /\ core # None
                /\ core[1].shared_secret = b.self.shared_secret
                /\ core[1].preset = b.self.preset
                /\ core[1].token_ttl_seconds =
                      IF "with_token_ttl" \in b.called THEN b.self.token_ttl_seconds
                      ELSE 300
                /\ IF "with_policy" \in b.called
                   THEN core[1].policy = b.self.policy[1]
                   ELSE /\ core[1].policy = "DefaultPolicy"
                        /\ \A ctx \in Contexts(now), op \in Operations :
                              /\ ~IsErr(Authorize(core[1].policy, ctx, op).err)
                              /\ Authorize(core[1].policy, ctx, op).decision.allowed

\* A builder given a preset, a ttl and a policy but an empty secret failed to
\* build, and no gateway exists.
C15_Witness ==
    /\ built # None
    /\ built[1].called = {"with_secret", "with_preset", "with_token_ttl", "with_policy"}
    /\ built[1].self.shared_secret = <<>>
    /\ built[1].result = InvalidCallerToken("shared_secret is required for SecurityCore")
    /\ core = None

\* The machine-readable identifier of a GatewayError: its variant.
Identifier(e) == e.kind
\* The errors validate returns for the tokens of the input sets: failures
\* whose cause is the caller token.
TokenFailures ==
    {r \in {validate(t, s, l, now) : t \in GatewayTokens(now), s \in Secrets, l \in Ttls} :
        IsErr(r)}

\* C25 (as stated): the identifier of an error determines the kind of failure:
\* no identifier is used for two different causes.  In particular the error
\* of a failed gateway construction, which no caller token caused, does not
\* carry the identifier that failures of token validation carry.
C25_IdentifierDeterminesCause ==
    (built # None /\ IsErr(built[1].result)) =>
        \A r \in TokenFailures : Identifier(r) # Identifier(built[1].result)

C18_FailAppendsError ==
    [][\A x \in Owners, e \in FailReasons :
        Fail(x, e) =>
            LET before == Held(x)[1]
                after == Held(x)'[1]
                n == Len(before.artifacts)
            IN /\ Len(after.artifacts) = n + 1
               /\ SubSeq(after.artifacts, 1, n) = before.artifacts
               /\ after.artifacts[n + 1].artifact_type = "error"
               /\ <<"error_reason", e>> \in after.artifacts[n + 1].data
               /\ after.status = "Error"
               /\ after.end_time # None]_vars

\* A span that had completed with one artifact was failed: it is in Error and
\* its second artifact is the error.
C18_Witness ==
    /\ span # None
    /\ span[1].status = "Error"
    /\ span[1].duration_ms # None
    /\ Len(span[1].artifacts) = 2
    /\ span[1].artifacts[1].artifact_type = "detection_signal"
    /\ span[1].artifacts[2].artifact_type = "error"
    /\ span[1].artifacts[2].timestamp # span[1].start_time

\* C19: over any sequence of complete, fail, attach_artifact and finalize on
\* a span, once the span is Completed or Error no later operation changes its
\* status, end_time or duration_ms.
C19_StatusSetOnce ==
    [][\A x, y \in Holders :
        (/\ Held(x) # None
         /\ Held(y)' # None
         /\ Held(x)[1].span_id = Held(y)'[1].span_id
         /\ Held(x)[1].status # "Running")
          => /\ Held(y)'[1].status = Held(x)[1].status
             /\ Held(y)'[1].end_time = Held(x)[1].end_time
             /\ Held(y)'[1].duration_ms = Held(x)[1].duration_ms]_vars

\* C20: finalize returns an envelope only for a span with at least one child
\* whose span_type is Agent.
C20_EnvelopeNeedsAgentChild ==
    (output # None /\ output[1].ok) =>
        \E i \in 1..Len(output[1].value[1].repo_span.children) :
            output[1].value[1].repo_span.children[i].span_type = "Agent"

\* C21: a span's artifacts are append-only.  Whatever operation acts on a
\* span (attach_artifact, complete, fail, finalize), the artifacts it had
\* before are a prefix of the artifacts it has after, each unchanged; and
\* every attach_artifact adds exactly one artifact, at the end, with the type
\* and data given, also when the span already carries one like it.
C21_ArtifactsAppendOnly ==
    [][/\ \A x, y \in Holders :
            (/\ Held(x) # None
             /\ Held(y)' # None
             /\ Held(x)[1].span_id = Held(y)'[1].span_id)
              => /\ Len(Held(y)'[1].artifacts) >= Len(Held(x)[1].artifacts)
                 /\ SubSeq(Held(y)'[1].artifacts, 1, Len(Held(x)[1].artifacts))
                       = Held(x)[1].artifacts
       /\ \A ty \in ArtifactTypes, data \in ArtifactData :
            AttachArtifact("span", ty, data) =>
                LET n == Len(span[1].artifacts)
                IN /\ Len(span'[1].artifacts) = n + 1
                   /\ span'[1].artifacts[n + 1].artifact_type = ty
                   /\ span'[1].artifacts[n + 1].data = data]_vars

\* A span carries two artifacts of the same type and data, attached one after
\* the other, and was completed afterwards.
C21_Witness ==
    /\ span # None
    /\ span[1].status = "Completed"
    /\ Len(span[1].artifacts) = 2
    /\ span[1].artifacts[1].artifact_type = span[1].artifacts[2].artifact_type
    /\ span[1].artifacts[1].data = span[1].artifacts[2].data
    /\ span[1].artifacts[1].artifact_id # span[1].artifacts[2].artifact_id

\* The tokens that differ from the token under test only in carrying a
\* well-formed hex signature that is not the MAC of its payload under secret.
MismatchTwins(secret) ==
    {[Tok EXCEPT !.signature = g] :
        g \in {h \in SignatureTexts(Tok.caller_id, Tok.issued_at) :
                 /\ h # <<>>
                 /\ \A i \in 1..Len(h) : h[i].hex
                 /\ h # compute_signature(Tok.caller_id, Tok.issued_at, secret)}}
\* The token under test has all fields and a signature that is not valid hex.
NonHexValidated ==
    /\ Validated
    /\ Tok.caller_id # <<>>
    /\ Tok.issued_at # <<>>
    /\ Tok.signature # <<>>
    /\ \E i \in 1..Len(Tok.signature) : ~Tok.signature[i].hex

\* C22 (as stated): a token whose signature is not valid hex and a token that
\* differs from it only by carrying a well-formed signature that does not
\* match get the identical error from validate, kind and message.
C22_DecodeFailureSameAsMismatch ==
    NonHexValidated =>
        \A twin \in MismatchTwins(Out.secret) :
            validate(twin, Out.secret, Out.ttl, Out.at) = Out.result

\* C22 (amended): the two get the same error kind, invalid-token, whatever
\* the secret, the ttl and the token's age; the messages differ: "signature
\* is not valid hex" for the decode failure and "signature mismatch" for the
\* mismatch.
C22_DecodeFailureSameKindAsMismatch ==
    NonHexValidated =>
        /\ Out.result = InvalidCallerToken("signature is not valid hex")
        /\ \A twin \in MismatchTwins(Out.secret) :
              LET r == validate(twin, Out.secret, Out.ttl, Out.at)
              IN /\ r.kind = Out.result.kind
                 /\ r = InvalidCallerToken("signature mismatch")

\* A token with a parseable issued_at and a signature that is not valid hex
\* was validated with a non-empty secret and found invalid.
C22_Witness ==
    /\ NonHexValidated
    /\ WellFormed
    /\ Out.secret # <<>>
    /\ MismatchTwins(Out.secret) # {}
    /\ Out.result.kind = "InvalidCallerToken"

\* C23: create returns the invalid-token error and no token whenever
\* caller_id is empty or shared_secret is empty; otherwise it returns a token
\* with the given caller_id, a non-empty signature and a non-empty issued_at.
C23_CreateRejectsEmptyInputs ==
    made.by = "create" =>
        IF made.caller_id = <<>> \/ made.secret = <<>>
        THEN /\ made.result.kind = "InvalidCallerToken"
             /\ token = None
        ELSE /\ made.result = Ok
             /\ token # None
             /\ Tok.caller_id = made.caller_id
             /\ Tok.signature # <<>>
             /\ Tok.issued_at # <<>>

\* create was called with a caller_id and an empty secret, and gave no token.
C23_Witness ==
    /\ made.by = "create"
    /\ made.caller_id # <<>>
    /\ made.secret = <<>>
    /\ made.result = InvalidCallerToken("shared_secret must not be empty")
    /\ token = None

\* C29: finalize changes the status of a span only when the span is still
\* Running: a span with at least one child that was already Error or
\* Completed is returned in the envelope with its status, end_time,
\* duration_ms and artifacts unchanged; the envelope's execution_id is the
\* span's and the children are all there in their original order.
C29_FinalizeKeepsFinishedSpan ==
    [][Finalize =>
        LET before == span[1]
            r == output'[1]
        IN Len(before.children) > 0 =>
              /\ r.ok
              /\ r.value[1].execution_id = before.execution_id
              /\ r.value[1].repo_span.execution_id = before.execution_id
              /\ r.value[1].repo_span.children = before.children
              /\ r.value[1].repo_span.status # before.status
                    => before.status = "Running"
              /\ before.status # "Running" =>
                    /\ r.value[1].repo_span.status = before.status
                    /\ r.value[1].repo_span.end_time = before.end_time
                    /\ r.value[1].repo_span.duration_ms = before.duration_ms
                    /\ r.value[1].repo_span.artifacts = before.artifacts]_vars

\* finalize returned the envelope of a span that had failed before: it is
\* still in Error, with its error artifact and its child.
C29_Witness ==
    /\ output # None
    /\ output[1].ok
    /\ output[1].value[1].repo_span.status = "Error"
    /\ Len(output[1].value[1].repo_span.children) = 1
    /\ Len(output[1].value[1].repo_span.artifacts) = 1
    /\ output[1].value[1].execution_id = output[1].value[1].repo_span.execution_id

\* end_time is absent exactly when the span is Running, and duration_ms is
\* absent when the span is Running.
TimesMatchStatus(s) ==
    /\ (s.end_time = None) <=> (s.status = "Running")
    /\ s.status = "Running" => s.duration_ms = None

\* C30: in every state reached from new_repo or new_agent by attach_artifact,
\* complete, fail and finalize, every span (in hand, appended as a child, or
\* in the envelope) has end_time absent exactly when its status is Running
\* and duration_ms absent whenever its status is Running.
C30_EndTimeAbsentIffRunning ==
    \A x \in Holders :
        Held(x) # None =>
            /\ TimesMatchStatus(Held(x)[1])
            /\ \A i \in 1..Len(Held(x)[1].children) :
                  TimesMatchStatus(Held(x)[1].children[i])

\* A span completed by finalize, with end_time and duration_ms, holds a child
\* that is still Running, with neither, and an earlier artifact.
C30_Witness ==
    /\ output # None
    /\ output[1].ok
    /\ output[1].value[1].repo_span.status = "Completed"
    /\ output[1].value[1].repo_span.end_time # None
    /\ output[1].value[1].repo_span.duration_ms # None
    /\ Len(output[1].value[1].repo_span.artifacts) = 1
    /\ output[1].value[1].repo_span.children[1].status = "Running"
    /\ output[1].value[1].repo_span.children[1].end_time = None
    /\ output[1].value[1].repo_span.children[1].duration_ms = None

\* C31 (as stated): for every span whose start_time parses, complete and fail
\* set duration_ms to now minus start_time in milliseconds, a non-negative
\* integer, whatever the relation between the two instants, a start_time
\* later than now included.
C31_DurationIsNowMinusStart ==
    [][((Complete("span") \/ \E e \in FailReasons : Fail("span", e))
          /\ parse_rfc3339(span[1].start_time) # ParseError)
        => LET d == span'[1].duration_ms
               elapsed == num_milliseconds(now - parse_rfc3339(span[1].start_time))
           IN /\ d # None
              /\ ~d[1].wrapped
              /\ d[1].offset = elapsed
              /\ d[1].offset >= 0]_vars

\* C32: new_agent(repo, name) returns a Running Agent span whose
\* parent_span_id is the repo span's span_id and whose execution_id is the
\* repo span's, and it leaves the repo span as it was: its children do not
\* grow until the caller appends the agent span, so finalize on a repo span
\* to which nothing was appended fails with the no-agent-spans error, also
\* after new_agent.
C32_NewAgentLeavesRepo ==
    [][/\ \A n \in AgentNames :
            NewAgent(n) =>
               /\ child'[1].span_type = "Agent"
               /\ child'[1].status = "Running"
               /\ child'[1].end_time = None
               /\ child'[1].name = n
               /\ child'[1].parent_span_id = span[1].span_id
               /\ child'[1].execution_id = span[1].execution_id
               /\ child'[1].span_id # span[1].span_id
               /\ span' = span
               /\ Len(span[1].children) = 0 =>
                     /\ ~finalize(span'[1], now).ok
                     /\ finalize(span'[1], now).err = NoAgentSpans
       /\ (Finalize /\ child # None /\ Len(span[1].children) = 0) =>
               /\ ~output'[1].ok
               /\ output'[1].err = NoAgentSpans
               /\ output'[1].value = None]_vars

\* An agent span was made from the repo span and not appended; finalize on
\* the repo span failed with the no-agent-spans error.
C32_Witness ==
    /\ child # None
    /\ child[1].span_type = "Agent"
    /\ child[1].status = "Running"
    /\ output # None
    /\ ~output[1].ok
    /\ output[1].err = NoAgentSpans

\* ------------------------------------------------- claims on the scan routes
\* The request carries the named header with a text that is not blank.
HeaderGiven(request, name) ==
    /\ request.headers[name] # None
    /\ request.headers[name][1].str
    /\ \E i \in 1..Len(request.headers[name][1].text) :
          request.headers[name][1].text[i] # " "
\* The caller-token check is enabled: the process has a non-empty secret.
CheckEnabled == environ # None /\ environ[1] # <<>>
CallerTokenHeaders == {"x-caller-id", "x-caller-signature", "x-caller-issued-at"}
ProvenanceHeaders == {"x-execution-id", "x-parent-span-id"}

\* C24: on the scan routes a request whose x-execution-id or x-parent-span-id
\* header is absent or blank never reaches the handler and is answered with
\* an error by one of the layers, whether or not the caller-token check is
\* enabled; and with the check enabled a request missing any caller-token
\* header never reaches the handler either.
C24_HeadersRequiredBeforeHandler ==
    /\ http.pc = "handler" =>
          /\ \A h \in ProvenanceHeaders : HeaderGiven(http.request, h)
          /\ CheckEnabled =>
                \A h \in CallerTokenHeaders : http.request.headers[h] # None
    /\ (/\ http.pc \in {"handler", "responded"}
        /\ \E h \in ProvenanceHeaders : ~HeaderGiven(http.request, h))
          => /\ http.pc = "responded"
             /\ http.response[1].status \in {400, 401}
             /\ http.request.extensions.span = None
    /\ (/\ http.pc \in {"handler", "responded"}
        /\ CheckEnabled
        /\ \E h \in CallerTokenHeaders : http.request.headers[h] = None)
          => /\ http.pc = "responded"
             /\ http.response[1] = MissingCallerToken

\* With the check enabled, a request whose caller token passed and whose
\* x-execution-id is blank was answered 400 by the execution-context layer.
C24_Witness ==
    /\ CheckEnabled
    /\ http.pc = "responded"
    /\ http.request.extensions.caller # None
    /\ http.request.headers["x-execution-id"] = Some(HeaderValue(<<" ">>))
    /\ HeaderGiven(http.request, "x-parent-span-id")
    /\ http.response[1] = MissingExecutionContextResponse

\* The text of a header as sent, the empty text when it was not sent or is no
\* text.
SentText(name) ==
    IF http.request.headers[name] = None THEN <<>>
    ELSE http.request.headers[name][1].text
\* The caller token the request's headers spell.
HeaderToken ==
    CallerToken(SentText("x-caller-id"), SentText("x-caller-signature"),
                SentText("x-caller-issued-at"))
\* gateway_middleware has run on the request and let it through to the next
\* layer.
GatewayPassed ==
    /\ http.checked_at # None
    /\ \/ http.response = None
       \/ http.response[1] = MissingExecutionContextResponse
\* What CallerToken::validate makes of the request's token with the given
\* secret and a ttl of 300 s at the instant the middleware ran.
ValidateAtCheck(secret) == validate(HeaderToken, secret, Some(300), http.checked_at[1])

\* C33: with the caller-token check enabled, a repo-level span is created
\* only for requests whose caller token has fully validated, and a request
\* that lacks caller-token headers and provenance headers is answered with
\* the caller-token error (401), not the missing-execution-context error.
C33_CallerTokenCheckedFirst ==
    /\ (CheckEnabled /\ http.request.extensions.span # None) =>
          /\ http.checked_at # None
          /\ http.request.extensions.caller # None
          /\ ValidateAtCheck(environ[1]) = Ok
    /\ (/\ CheckEnabled
        /\ http.pc \in {"handler", "responded"}
        /\ \E h \in CallerTokenHeaders : http.request.headers[h] = None
        /\ \E h \in ProvenanceHeaders : ~HeaderGiven(http.request, h))
          => /\ http.pc = "responded"
             /\ http.response[1].status = 401
             /\ http.response[1].code = "CALLER_TOKEN_REQUIRED"
             /\ http.request.extensions.span = None

\* With the check enabled, a request that carries no caller-token header, no
\* x-execution-id and no usable x-parent-span-id was answered 401 by the
\* caller-token layer.
C33_Witness ==
    /\ CheckEnabled
    /\ http.pc = "responded"
    /\ \A h \in HeaderNames \ {"x-parent-span-id"} : http.request.headers[h] = None
    /\ ~HeaderGiven(http.request, "x-parent-span-id")
    /\ http.response[1] = MissingCallerToken

\* The request got through the middleware exactly when validate succeeds
\* with the secret, and was answered with the expired code exactly when
\* validate returns the expired-token error.
SameAsValidate(secret) ==
    /\ GatewayPassed <=> (ValidateAtCheck(secret) = Ok)
    /\ (http.response # None /\ http.response[1].code = "EXPIRED_CALLER_TOKEN")
          <=> (ValidateAtCheck(secret).kind = "ExpiredCallerToken")

C35_CallerAddedOnlyAfterChecks ==
    /\ (~CheckEnabled /\ http.checked_at # None) =>
          /\ GatewayPassed
          /\ http.request.extensions.caller = None
    /\ http.request.extensions.caller # None =>
          /\ CheckEnabled
          /\ http.checked_at # None
          /\ http.request.extensions.caller[1].caller_id = SentText("x-caller-id")
          /\ SentText("x-caller-id") # <<>>
          /\ SentText("x-caller-signature") =
                compute_signature(SentText("x-caller-id"),
                                  SentText("x-caller-issued-at"), environ[1])
          /\ parse_rfc3339(SentText("x-caller-issued-at")) # ParseError
          /\ LET age == http.checked_at[1] - parse_rfc3339(SentText("x-caller-issued-at"))
             IN num_seconds(age) <= 300 /\ num_seconds(age) >= 0 - 30

\* With the variable set to the empty text, a request without caller-token
\* headers reached the handler, and no GatewayCaller was added.
C35_Witness ==
    /\ environ = Some(<<>>)
    /\ http.pc = "handler"
    /\ \A h \in CallerTokenHeaders : http.request.headers[h] = None
    /\ http.request.extensions.caller = None
    /\ http.request.extensions.span # None

====
